---- MODULE Spec2Model ----
(***************************************************************************)
(* qlibc: the static (flat-memory) hash table qhasharr.                    *)
(*                                                                         *)
(* The table is a header (maxslots, usedslots, num) followed by an array   *)
(* of fixed-size slots.  Every slot has the fields count, hash, size and   *)
(* link and a 66-byte union that is either a key/value pair (value[32],    *)
(* key[16], keylen, keymd5[16]) or an extension block (value[66]).  The    *)
(* union is modelled as raw bytes, so that whatever a slot held before is  *)
(* still there when the slot is used again, as in the C memory.            *)
(***************************************************************************)
EXTENDS Integers, Sequences, FiniteSets, TLC

\* ------------------------------------------------------------ constants

Q_HASHARR_KEYSIZE == 16

Q_HASHARR_VALUESIZE == 32

MD5_SIZE == 16

KEYLEN_SIZE == 2

\* sizeof(struct _Q_HASHARR_SLOT_KEYVAL) = sizeof(struct _Q_HASHARR_SLOT_EXT)
SLOT_EXT_SIZE == Q_HASHARR_VALUESIZE + Q_HASHARR_KEYSIZE + KEYLEN_SIZE + MD5_SIZE

\* offsets of the members of struct _Q_HASHARR_SLOT_KEYVAL inside the union
OFF_VALUE == 0
OFF_KEY == OFF_VALUE + Q_HASHARR_VALUESIZE
OFF_KEYLEN == OFF_KEY + Q_HASHARR_KEYSIZE
OFF_KEYMD5 == OFF_KEYLEN + KEYLEN_SIZE

\* ------------------------------------------------------------ bounds

\* number of slots of the table under test (memsize = header + MaxSlots slots)
MaxSlots == 3

\* the counters usedslots and num are C ints and can run below zero; the
\* operations are explored while neither is below -MaxDeficit
MaxDeficit == 0

\* ------------------------------------------------------------ inputs

\* a null pointer argument (no byte string equals it)
NULL == <<256>>

\* "1234567890123456b8", "1234567890123456dr" and "1234567890123456a5":
\* longer than the key field, same length, same first 16 bytes
KeyL1 == <<49, 50, 51, 52, 53, 54, 55, 56, 57, 48, 49, 50, 51, 52, 53, 54, 98, 56>>
KeyL2 == <<49, 50, 51, 52, 53, 54, 55, 56, 57, 48, 49, 50, 51, 52, 53, 54, 100, 114>>
KeyL3 == <<49, 50, 51, 52, 53, 54, 55, 56, 57, 48, 49, 50, 51, 52, 53, 54, 97, 53>>
\* "e139"
KeyS1 == <<101, 49, 51, 57>>

Keys == {KeyL1, KeyL2, KeyL3, KeyS1}

\* values of 0, 1, 33 (one extension slot) and 99 (two extension slots) bytes
Val0 == <<>>
Val1 == <<120>>
Val33 == [i \in 1..33 |-> 64 + i]
Val99 == [i \in 1..99 |-> 100 + i]

\* the calls of put explored by Spec, and the null pointers
PutKeys == {KeyL1, KeyL2, KeyS1}

PutArgs ==
    {<<KeyL1, Val0>>, <<KeyL1, Val1>>, <<KeyL1, Val99>>, <<KeyL2, Val33>>,
     <<KeyS1, Val1>>, <<NULL, Val1>>, <<KeyS1, NULL>>}

\* the calls of put explored by SpecReloc
RelocArgs ==
    {<<KeyL1, Val1>>, <<KeyL2, Val33>>, <<KeyS1, Val1>>, <<KeyL3, Val1>>}

RelocRemoves == {KeyL2, KeyS1}

\* ------------------------------------------------------------ hashes

\* qhashmurmur3_32(key, strlen(key)) for the keys above, as <<high 16 bits,
\* low 16 bits>> of the 32-bit result
\*   KeyL1   74146560 =  1131 * 65536 + 25344
\*   KeyL2  313865640 =  4789 * 65536 + 13736
\*   KeyL3  798801422 = 12188 * 65536 + 48654
\*   KeyS1 3536241241 = 53958 * 65536 + 49753
qhashmurmur3_32(key) ==
    CASE key = KeyL1 -> <<1131, 25344>>
      [] key = KeyL2 -> <<4789, 13736>>
      [] key = KeyL3 -> <<12188, 48654>>
      [] key = KeyS1 -> <<53958, 49753>>

\* qhashmd5(key, keylen, keymd5) for the keys above
qhashmd5(key) ==
    CASE key = KeyL1 -> <<157, 133, 134, 70, 254, 97, 125, 6, 172, 169, 35, 237, 150, 44, 28, 78>>
      [] key = KeyL2 -> <<115, 199, 2, 103, 7, 236, 89, 230, 216, 200, 216, 228, 21, 73, 232, 230>>
      [] key = KeyL3 -> <<170, 232, 11, 29, 147, 66, 69, 2, 238, 196, 251, 185, 205, 56, 47, 13>>
      [] key = KeyS1 -> <<228, 200, 217, 95, 86, 93, 177, 40, 9, 110, 6, 243, 7, 53, 41, 211>>

\* unsigned int hash = qhashmurmur3_32(key, strlen(key)) % tbl->maxslots
KeyHash(key, maxslots) ==
    LET h == qhashmurmur3_32(key)
    IN  ((h[1] % maxslots) * (65536 % maxslots) + (h[2] % maxslots)) % maxslots

\* ------------------------------------------------------------ memory

Min(a, b) == IF a < b THEN a ELSE b

\* memcpy(mem + off, bytes, Len(bytes))
WriteBytes(mem, off, bytes) ==
    SubSeq(mem, 1, off) \o bytes \o SubSeq(mem, off + Len(bytes) + 1, Len(mem))

\* strncpy(dst, key, _Q_HASHARR_KEYSIZE): the key, cut or padded with NULs
Strncpy(key) ==
    [i \in 1..Q_HASHARR_KEYSIZE |-> IF i <= Len(key) THEN key[i] ELSE 0]

\* a uint16_t in memory
Uint16Bytes(n) == <<n % 256, (n \div 256) % 256>>

\* a slot after memset(.., 0, ..)
ZeroSlot ==
    [count |-> 0, hash |-> 0, size |-> 0, link |-> 0,
     data |-> [i \in 1..SLOT_EXT_SIZE |-> 0]]

\* data.pair.key, data.pair.keylen, data.pair.keymd5 of a slot
PairKey(slot) == SubSeq(slot.data, OFF_KEY + 1, OFF_KEY + Q_HASHARR_KEYSIZE)
PairKeylen(slot) == slot.data[OFF_KEYLEN + 1] + 256 * slot.data[OFF_KEYLEN + 2]
PairKeymd5(slot) == SubSeq(slot.data, OFF_KEYMD5 + 1, OFF_KEYMD5 + MD5_SIZE)

\* ------------------------------------------------------------ internals
\* A table is a record [maxslots, usedslots, num, slots], slots a function on
\* 0..maxslots-1.  An operation yields [ret, errno, tbl]: ret is "true" or
\* "false", or "hang" when the C call never returns (a loop over a link cycle,
\* a recursion without end); errno is "none" when it is not set.

Result(ret, errno, tbl) == [ret |-> ret, errno |-> errno, tbl |-> tbl]

NextIdx(tbl, idx) == IF idx + 1 >= tbl.maxslots THEN 0 ELSE idx + 1

RECURSIVE find_empty_loop(_, _, _)
find_empty_loop(tbl, startidx, idx) ==
    IF tbl.slots[idx].count = 0 THEN idx
    ELSE IF NextIdx(tbl, idx) = startidx THEN -1
    ELSE find_empty_loop(tbl, startidx, NextIdx(tbl, idx))

\* a scan for an empty slot that takes the last one of the table, not the
\* first one from startidx
_find_empty_last(tbl, startidx) ==
    IF \A i \in 0..(tbl.maxslots - 1) : tbl.slots[i].count # 0 THEN -1
    ELSE CHOOSE i \in 0..(tbl.maxslots - 1) :
             /\ tbl.slots[i].count = 0
             /\ \A j \in (i + 1)..(tbl.maxslots - 1) : tbl.slots[j].count # 0

\* find empty slot : return empty slot number, otherwise returns -1.
_find_empty(tbl, startidx) ==
    LET start == IF startidx >= tbl.maxslots THEN 0 ELSE startidx
    IN  find_empty_loop(tbl, start, start)

\* the key comparison of _get_idx: length first, then the stored bytes, and
\* the MD5 digest too when the key was truncated
SameKey(slot, key) ==
    LET keylen == Len(key)
    IN  /\ keylen = PairKeylen(slot)
        /\ IF keylen <= Q_HASHARR_KEYSIZE
           THEN SubSeq(key, 1, keylen) = SubSeq(PairKey(slot), 1, keylen)
           ELSE /\ SubSeq(key, 1, Q_HASHARR_KEYSIZE) = PairKey(slot)
                /\ qhashmd5(key) = PairKeymd5(slot)

\* a slot that counts for bucket hash: same hash, and a key slot
SameHash(slot, hash) ==
    slot.hash = hash /\ (slot.count > 0 \/ slot.count = -1)

RECURSIVE get_idx_loop(_, _, _, _, _)
get_idx_loop(tbl, key, hash, count, idx) ==
    IF ~(count < tbl.slots[hash].count) THEN -1
    ELSE IF SameHash(tbl.slots[idx], hash) /\ SameKey(tbl.slots[idx], key) THEN idx
    ELSE IF NextIdx(tbl, idx) = hash THEN -1
    ELSE get_idx_loop(tbl, key, hash,
                      IF SameHash(tbl.slots[idx], hash) THEN count + 1 ELSE count,
                      NextIdx(tbl, idx))

\* a lookup that takes the leading slot of the bucket without comparing keys
_get_idx_any(tbl, key, hash) == IF tbl.slots[hash].count > 0 THEN hash ELSE -1

_get_idx(tbl, key, hash) ==
    IF tbl.slots[hash].count > 0 THEN get_idx_loop(tbl, key, hash, 0, hash) ELSE -1

\* the bytes of one slot that _get_data copies: size bytes from the start of
\* the union (data.ext.value and data.pair.value both start there)
SlotBytes(slot) == SubSeq(slot.data, 1, slot.size)

RECURSIVE get_data_loop(_, _, _)
get_data_loop(tbl, newidx, visited) ==
    IF newidx \in visited THEN [hang |-> TRUE, data |-> <<>>]
    ELSE IF tbl.slots[newidx].link = -1
         THEN [hang |-> FALSE, data |-> SlotBytes(tbl.slots[newidx])]
    ELSE LET rest == get_data_loop(tbl, tbl.slots[newidx].link, visited \cup {newidx})
         IN  [hang |-> rest.hang, data |-> SlotBytes(tbl.slots[newidx]) \o rest.data]

\* the value of the entry whose key slot is idx: [hang, data]
_get_data(tbl, idx) == get_data_loop(tbl, idx, {})

_remove_slot(tbl, idx) ==
    IF tbl.slots[idx].count = 0 THEN tbl
    ELSE [tbl EXCEPT !.slots[idx].count = 0, !.usedslots = @ - 1]

_copy_slot(tbl, idx1, idx2) ==
    IF tbl.slots[idx1].count # 0 \/ tbl.slots[idx2].count = 0 THEN tbl
    ELSE [tbl EXCEPT !.slots[idx1] = tbl.slots[idx2], !.usedslots = @ + 1]

RECURSIVE remove_data_loop(_, _, _)
remove_data_loop(tbl, idx, visited) ==
    IF idx \in visited THEN Result("hang", "none", tbl)
    ELSE IF tbl.slots[idx].link = -1
         THEN Result("true", "none", _remove_slot(tbl, idx))
    ELSE remove_data_loop(_remove_slot(tbl, idx), tbl.slots[idx].link,
                          visited \cup {idx})

\* a removal that frees the slots of the entry and leaves the key counter
_remove_data_slots(tbl, idx) ==
    IF tbl.slots[idx].count = 0 THEN Result("false", "EFAULT", tbl)
    ELSE remove_data_loop(tbl, idx, {})

_remove_data(tbl, idx) ==
    IF tbl.slots[idx].count = 0 THEN Result("false", "EFAULT", tbl)
    ELSE LET r == remove_data_loop(tbl, idx, {})
         IN  IF r.ret = "hang" THEN r
             ELSE Result("true", "none", [r.tbl EXCEPT !.num = @ - 1])

\* _put_data up to "store value": the key slot is written
put_data_key(tbl, idx, hash, key, count) ==
    [tbl EXCEPT !.slots[idx] =
        [@ EXCEPT !.count = count,
                  !.hash = hash,
                  !.link = -1,
                  !.data = WriteBytes(
                               WriteBytes(
                                   WriteBytes(@, OFF_KEY, Strncpy(key)),
                                   OFF_KEYMD5, qhashmd5(key)),
                               OFF_KEYLEN, Uint16Bytes(Len(key)))]]

\* a new extension slot tmpidx linked behind newidx
put_data_extend(tbl, newidx, tmpidx) ==
    [tbl EXCEPT !.slots[tmpidx] = [ZeroSlot EXCEPT !.count = -2,
                                                   !.hash = newidx,
                                                   !.link = -1,
                                                   !.size = 0],
                !.slots[newidx].link = tmpidx]

\* "copy data": the next bytes of the value go into slot newidx
put_data_copy(tbl, newidx, value, savesize) ==
    LET isext == tbl.slots[newidx].count = -2
        copysize == Min(Len(value) - savesize,
                        IF isext THEN SLOT_EXT_SIZE ELSE Q_HASHARR_VALUESIZE)
    IN  [tbl EXCEPT !.slots[newidx].data =
                        WriteBytes(@, OFF_VALUE,
                                   SubSeq(value, savesize + 1, savesize + copysize)),
                    !.slots[newidx].size = copysize,
                    !.num = IF isext THEN @ ELSE @ + 1,
                    !.usedslots = @ + 1]

\* a byte count that leaves the last byte of every slot out of the count
put_data_copysize_short(tbl, newidx, value, savesize) ==
    Min(Len(value) - savesize,
        (IF tbl.slots[newidx].count = -2 THEN SLOT_EXT_SIZE ELSE Q_HASHARR_VALUESIZE) - 1)

put_data_copysize(tbl, newidx, value, savesize) ==
    Min(Len(value) - savesize,
        IF tbl.slots[newidx].count = -2 THEN SLOT_EXT_SIZE ELSE Q_HASHARR_VALUESIZE)

RECURSIVE put_data_loop(_, _, _, _, _)
put_data_loop(tbl, idx, newidx, savesize, value) ==
    IF ~(savesize < Len(value)) THEN Result("true", "none", tbl)
    ELSE IF savesize = 0
         THEN put_data_loop(put_data_copy(tbl, newidx, value, savesize), idx, newidx,
                            savesize + put_data_copysize(tbl, newidx, value, savesize),
                            value)
    ELSE LET tmpidx == _find_empty(tbl, newidx + 1)
             ext == put_data_extend(tbl, newidx, tmpidx)
         IN  IF tmpidx < 0
             THEN LET r == _remove_data(tbl, idx)
                  IN  Result(IF r.ret = "hang" THEN "hang" ELSE "false", "ENOBUFS", r.tbl)
             ELSE put_data_loop(put_data_copy(ext, tmpidx, value, savesize), idx, tmpidx,
                                savesize + put_data_copysize(ext, tmpidx, value, savesize),
                                value)

_put_data(tbl, idx, hash, key, value, count) ==
    IF tbl.slots[idx].count # 0 THEN Result("false", "EFAULT", tbl)
    ELSE put_data_loop(put_data_key(tbl, idx, hash, key, count), idx, idx, 0, value)

\* ------------------------------------------------------------ operations

\* remove_(), leading slot with duplicates: the first slot after idx, going
\* round, that holds a displaced entry of bucket hash; -1 when back at idx
RECURSIVE remove_find_dup(_, _, _, _)
remove_find_dup(tbl, hash, idx, idx2) ==
    LET at == IF idx2 >= tbl.maxslots THEN 0 ELSE idx2
    IN  IF at = idx THEN -1
        ELSE IF tbl.slots[at].count = -1 /\ tbl.slots[at].hash = hash THEN at
        ELSE remove_find_dup(tbl, hash, idx, at + 1)

\* remove_(), "move to leading slot": the displaced entry idx2 takes the place
\* of the leading entry idx
remove_lead(tbl, idx, idx2) ==
    LET backupcount == tbl.slots[idx].count
        removed == _remove_data(tbl, idx)
        copied == _copy_slot(removed.tbl, idx, idx2)
        moved == _remove_slot(copied, idx2)
        counted == [moved EXCEPT !.slots[idx].count = backupcount - 1]
        linked == IF counted.slots[idx].link # -1
                  THEN [counted EXCEPT !.slots[counted.slots[idx].link].hash = idx]
                  ELSE counted
    IN  IF removed.ret = "hang" THEN removed ELSE Result("true", "none", linked)

\* remove_(), displaced entry: the leading slot's counter goes down by one
remove_dup(tbl, idx) ==
    LET lead == tbl.slots[idx].hash
    IN  IF tbl.slots[lead].count <= 1 THEN Result("false", "EFAULT", tbl)
        ELSE LET r == _remove_data([tbl EXCEPT !.slots[lead].count = @ - 1], idx)
             IN  IF r.ret = "hang" THEN r ELSE Result("true", "none", r.tbl)

remove_(tbl, key) ==
    IF key = NULL THEN Result("false", "EINVAL", tbl)
    ELSE LET hash == KeyHash(key, tbl.maxslots)
             idx == _get_idx(tbl, key, hash)
             idx2 == remove_find_dup(tbl, hash, idx, idx + 1)
         IN  IF idx < 0 THEN Result("false", "ENOENT", tbl)
             ELSE IF tbl.slots[idx].count = 1
                  THEN LET r == _remove_data(tbl, idx)
                       IN  IF r.ret = "hang" THEN r ELSE Result("true", "none", r.tbl)
             ELSE IF tbl.slots[idx].count > 1
                  THEN IF idx2 < 0 THEN Result("false", "EFAULT", tbl)
                       ELSE remove_lead(tbl, idx, idx2)
             ELSE remove_dup(tbl, idx)

\* put(), "in case of -1 or -2, move it": the occupant of slot hash moves to
\* the empty slot idx
put_move(tbl, idx, hash) ==
    LET moved == _remove_slot(_copy_slot(tbl, idx, hash), hash)
        mother == IF moved.slots[idx].count = -2
                  THEN [moved EXCEPT !.slots[moved.slots[idx].hash].link = idx]
                  ELSE moved
    IN  IF mother.slots[idx].count = -2 /\ mother.slots[idx].link # -1
        THEN [mother EXCEPT !.slots[mother.slots[idx].link].hash = idx]
        ELSE mother

\* a full test that is late by one slot: it lets a put through when usedslots
\* has just reached maxslots
put_full_late(tbl) == tbl.usedslots > tbl.maxslots

\* put(), "check full"
put_full(tbl) == tbl.usedslots >= tbl.maxslots

RECURSIVE put(_, _, _)
put(tbl, key, value) ==
    IF key = NULL \/ value = NULL THEN Result("false", "EINVAL", tbl)
    ELSE IF put_full(tbl) THEN Result("false", "ENOBUFS", tbl)
    ELSE LET hash == KeyHash(key, tbl.maxslots)
         IN  IF tbl.slots[hash].count = 0
             THEN _put_data(tbl, hash, hash, key, value, 1)
             ELSE IF tbl.slots[hash].count > 0
             THEN IF _get_idx(tbl, key, hash) >= 0
                  THEN LET removed == remove_(tbl, key)
                       IN  IF removed.ret # "true"
                           THEN Result("hang", "none", removed.tbl)
                           ELSE put(removed.tbl, key, value)
                  ELSE LET idx == _find_empty(tbl, hash)
                           r == _put_data(tbl, idx, hash, key, value, -1)
                       IN  IF idx < 0 THEN Result("false", "ENOBUFS", tbl)
                           ELSE IF r.ret # "true" THEN r
                           ELSE Result("true", "none",
                                       [r.tbl EXCEPT !.slots[hash].count = @ + 1])
             ELSE LET idx == _find_empty(tbl, hash + 1)
                  IN  IF idx < 0 THEN Result("false", "ENOBUFS", tbl)
                      ELSE _put_data(put_move(tbl, idx, hash), hash, hash, key, value, 1)

\* get(): [ret, errno, data]
get(tbl, key) ==
    IF key = NULL THEN [ret |-> "false", errno |-> "EINVAL", data |-> <<>>]
    ELSE LET idx == _get_idx(tbl, key, KeyHash(key, tbl.maxslots))
         IN  IF idx < 0 THEN [ret |-> "false", errno |-> "ENOENT", data |-> <<>>]
             ELSE IF _get_data(tbl, idx).hang
                  THEN [ret |-> "hang", errno |-> "none", data |-> <<>>]
             ELSE [ret |-> "true", errno |-> "none", data |-> _get_data(tbl, idx).data]

\* getnext(), the scan from *idx: the first slot at or after idx that is
\* neither empty nor an extension; maxslots when there is none
RECURSIVE getnext_scan(_, _)
getnext_scan(tbl, idx) ==
    IF idx >= tbl.maxslots THEN tbl.maxslots
    ELSE IF tbl.slots[idx].count = 0 \/ tbl.slots[idx].count = -2
         THEN getnext_scan(tbl, idx + 1)
    ELSE idx

\* obj->name: the stored key bytes, at most _Q_HASHARR_KEYSIZE of them
getnext_name(slot) == SubSeq(PairKey(slot), 1, Min(PairKeylen(slot), Q_HASHARR_KEYSIZE))

\* getnext() with a non-null obj and idx: [ret, errno, name, data, idx], idx
\* the cursor after the call
getnext(tbl, idx) ==
    LET at == getnext_scan(tbl, idx)
    IN  IF at >= tbl.maxslots
        THEN [ret |-> "false", errno |-> "ENOENT", name |-> <<>>, data |-> <<>>,
              idx |-> IF idx > tbl.maxslots THEN idx ELSE tbl.maxslots]
        ELSE IF _get_data(tbl, at).hang
             THEN [ret |-> "hang", errno |-> "none", name |-> <<>>, data |-> <<>>,
                   idx |-> at]
        ELSE [ret |-> "true", errno |-> "none", name |-> getnext_name(tbl.slots[at]),
              data |-> _get_data(tbl, at).data, idx |-> at + 1]

clear(tbl) ==
    IF tbl.usedslots = 0 THEN tbl
    ELSE [tbl EXCEPT !.usedslots = 0, !.num = 0,
                     !.slots = [i \in 0..(tbl.maxslots - 1) |-> ZeroSlot]]

\* the table right after qhasharr() on a memory of maxslots slots
qhasharr(maxslots) ==
    [maxslots |-> maxslots, usedslots |-> 0, num |-> 0,
     slots |-> [i \in 0..(maxslots - 1) |-> ZeroSlot]]

\* ------------------------------------------------------------ construction

\* sizeof(qhasharr_t) and sizeof(struct _Q_HASHARR_SLOT) of the LP64 build
HEADER_SIZE == 176
SLOT_SIZE == 84

\* a size_t is 64 bits wide: SIZE_LIMBS limbs of 16 bits, the least
\* significant first; an int is the two low limbs, two's complement
LIMB == 65536
SIZE_LIMBS == 4
INT_SIGN == 32768

\* the size_t of a number in 0 .. 2^31 - 1
SizeT(n) == <<n % LIMB, (n \div LIMB) % LIMB, 0, 0>>

RECURSIVE size_sub(_, _, _, _)
size_sub(a, b, i, borrow) ==
    IF i > SIZE_LIMBS THEN <<>>
    ELSE LET d == a[i] - b[i] - borrow
         IN  <<(d + LIMB) % LIMB>> \o size_sub(a, b, i + 1, IF d < 0 THEN 1 ELSE 0)

\* a - b in size_t: wraps below zero
SizeSub(a, b) == size_sub(a, b, 1, 0)

RECURSIVE size_add(_, _, _, _)
size_add(a, b, i, carry) ==
    IF i > SIZE_LIMBS THEN <<>>
    ELSE LET d == a[i] + b[i] + carry
         IN  <<d % LIMB>> \o size_add(a, b, i + 1, d \div LIMB)

\* a + b in size_t
SizeAdd(a, b) == size_add(a, b, 1, 0)

RECURSIVE size_mul(_, _, _, _)
size_mul(a, k, i, carry) ==
    IF i > SIZE_LIMBS THEN <<>>
    ELSE LET d == a[i] * k + carry
         IN  <<d % LIMB>> \o size_mul(a, k, i + 1, d \div LIMB)

\* a * k in size_t, k a sizeof
SizeMul(a, k) == size_mul(a, k, 1, 0)

RECURSIVE size_div(_, _, _, _)
size_div(a, k, i, rem) ==
    IF i < 1 THEN <<>>
    ELSE LET cur == rem * LIMB + a[i]
         IN  size_div(a, k, i - 1, cur % k) \o <<cur \div k>>

\* a / k in size_t, rounding up: not what the division of line 216 does
SizeDivUp(a, k) == size_div(SizeAdd(a, SizeT(k - 1)), k, SIZE_LIMBS, 0)

\* a / k in size_t, k a sizeof
SizeDiv(a, k) == size_div(a, k, SIZE_LIMBS, 0)

RECURSIVE size_leq(_, _, _)
size_leq(a, b, i) ==
    IF i < 1 THEN TRUE
    ELSE IF a[i] # b[i] THEN a[i] < b[i]
    ELSE size_leq(a, b, i - 1)

\* a <= b in size_t
SizeLeq(a, b) == size_leq(a, b, SIZE_LIMBS)

\* the int a size_t converts to: its low 32 bits
ToInt(a) ==
    IF a[2] >= INT_SIGN THEN (a[2] - LIMB) * LIMB + a[1]
    ELSE a[2] * LIMB + a[1]

\* the size_t an int converts to
IntToSizeT(n) == IF n >= 0 THEN SizeT(n) ELSE SizeSub(SizeT(0), SizeT(-n))

qhasharr_calculate_memsize(max) ==
    SizeAdd(SizeT(HEADER_SIZE), SizeMul(IntToSizeT(max), SLOT_SIZE))

\* maxslots of qhasharr(): the quotient, then its conversion to int
qhasharr_maxslots(memsize) ==
    ToInt(SizeDiv(SizeSub(memsize, SizeT(HEADER_SIZE)), SLOT_SIZE))

\* qhasharr() on a memory (what it held before is lost on success)
qhasharr_new(memory, memsize) ==
    LET maxslots == qhasharr_maxslots(memsize)
    IN  IF maxslots < 1 \/ SizeLeq(memsize, SizeT(HEADER_SIZE))
        THEN Result("NULL", "EINVAL", memory)
        ELSE Result("memory", "none", qhasharr(maxslots))

\* ------------------------------------------------------------ integers

\* an int64_t is 64 bits wide, two's complement: the limbs of a size_t
INT64_MIN == <<0, 0, 0, INT_SIGN>>
INT64_MAX == <<LIMB - 1, LIMB - 1, LIMB - 1, INT_SIGN - 1>>
UINT64_MAX == <<LIMB - 1, LIMB - 1, LIMB - 1, LIMB - 1>>

Int64IsNeg(a) == a[SIZE_LIMBS] >= INT_SIGN
Int64Neg(a) == SizeSub(SizeT(0), a)

\* char str[20+1] of putint
PUTINT_BUF == 21

\* characters
CH_NUL == 0
CH_PLUS == 43
CH_MINUS == 45
CH_0 == 48
CH_9 == 57
CH_SPACES == {9, 10, 11, 12, 13, 32}

\* the last decimal digit of an unsigned 64-bit number
LastDigit(m) == SizeSub(m, SizeMul(SizeDiv(m, 10), 10))[1]

RECURSIVE decimal(_)
decimal(m) ==
    IF SizeLeq(m, SizeT(9)) THEN <<CH_0 + m[1]>>
    ELSE decimal(SizeDiv(m, 10)) \o <<CH_0 + LastDigit(m)>>

\* snprintf(str, sizeof(str), "%" PRId64, num): the characters before the NUL
snprintf_d64(num) ==
    LET full == IF Int64IsNeg(num) THEN <<CH_MINUS>> \o decimal(Int64Neg(num))
                ELSE decimal(num)
    IN  SubSeq(full, 1, Min(Len(full), PUTINT_BUF - 1))

\* str is the string without its terminator; strlen(str) + 1 bytes are stored
putstr(tbl, key, str) ==
    IF str = NULL THEN put(tbl, key, NULL) ELSE put(tbl, key, str \o <<CH_NUL>>)

\* the decimal string with its first digits dropped: not what putint stores
putint_short(tbl, key, num) ==
    putstr(tbl, key, SubSeq(snprintf_d64(num), 1, Min(Len(snprintf_d64(num)), Q_HASHARR_KEYSIZE)))

putint(tbl, key, num) == putstr(tbl, key, snprintf_d64(num))

\* atoll reads the malloc'ed copy of the value: [defined, num]. It is not
\* defined when the scan runs past the last byte (no terminator) or the
\* number does not fit an int64_t.
RECURSIVE atoll_digits(_, _, _)
atoll_digits(bytes, i, acc) ==
    IF i > Len(bytes) THEN [defined |-> FALSE, num |-> acc]
    ELSE IF bytes[i] < CH_0 \/ bytes[i] > CH_9 THEN [defined |-> TRUE, num |-> acc]
    ELSE IF ~SizeLeq(acc, SizeDiv(SizeSub(UINT64_MAX, SizeT(bytes[i] - CH_0)), 10))
         THEN [defined |-> FALSE, num |-> acc]
    ELSE atoll_digits(bytes, i + 1,
                      SizeAdd(SizeMul(acc, 10), SizeT(bytes[i] - CH_0)))

RECURSIVE atoll_skip(_, _)
atoll_skip(bytes, i) ==
    IF i > Len(bytes) THEN i
    ELSE IF bytes[i] \in CH_SPACES THEN atoll_skip(bytes, i + 1)
    ELSE i

atoll(bytes) ==
    LET i == atoll_skip(bytes, 1)
        neg == i <= Len(bytes) /\ bytes[i] = CH_MINUS
        signed == i <= Len(bytes) /\ (bytes[i] = CH_MINUS \/ bytes[i] = CH_PLUS)
        m == atoll_digits(bytes, IF signed THEN i + 1 ELSE i, SizeT(0))
    IN  IF ~m.defined THEN m
        ELSE IF neg THEN [defined |-> SizeLeq(m.num, INT64_MIN), num |-> Int64Neg(m.num)]
        ELSE [defined |-> SizeLeq(m.num, INT64_MAX), num |-> m.num]

\* getint(): [ret, errno, defined, num]; errno is written only by get
getint(tbl, key) ==
    LET r == get(tbl, key)
    IN  IF r.ret = "hang"
        THEN [ret |-> "hang", errno |-> "none", defined |-> TRUE, num |-> SizeT(0)]
        ELSE IF r.ret = "true"
        THEN [ret |-> "returned", errno |-> "none",
              defined |-> atoll(r.data).defined, num |-> atoll(r.data).num]
        ELSE [ret |-> "returned", errno |-> r.errno, defined |-> TRUE, num |-> SizeT(0)]

\* ------------------------------------------------------------ list

\* the objects malloc can hand out to one list; with none left it fails
MaxObjs == 3

\* the null object pointer
NIL == 0

ObjIds == 1..MaxObjs

NoObj == [used |-> FALSE, data |-> <<>>, size |-> 0, prev |-> NIL, next |-> NIL]

\* the list right after qlist(): memset to zero
qlist ==
    [num |-> 0, max |-> 0, datasum |-> 0, first |-> NIL, last |-> NIL,
     objs |-> [o \in ObjIds |-> NoObj]]

\* what a list call gives: ret is "true", "false", "data" or "NULL"
ListResult(ret, errno, list, data) ==
    [ret |-> ret, errno |-> errno, list |-> list, data |-> data]

\* malloc(sizeof(qdlobj_t)): an unused object, NIL when there is none
malloc_obj(list) ==
    IF \A o \in ObjIds : list.objs[o].used THEN NIL
    ELSE CHOOSE o \in ObjIds :
             ~list.objs[o].used /\ \A p \in ObjIds : p < o => list.objs[p].used

\* int index compared with size_t num: both as size_t
IndexGeqNum(index, num) == SizeLeq(SizeT(num), IntToSizeT(index))
IndexGtNum(index, num) == ~SizeLeq(IntToSizeT(index), SizeT(num))

\* list->num + index, computed in size_t and stored in int index
NumPlusIndex(num, index) == ToInt(SizeAdd(SizeT(num), IntToSizeT(index)))

RECURSIVE get_obj_scan(_, _, _, _, _)
get_obj_scan(list, obj, listidx, index, backward) ==
    IF obj = NIL THEN [obj |-> NIL, errno |-> "ENOENT"]
    ELSE IF listidx = index THEN [obj |-> obj, errno |-> "none"]
    ELSE IF backward
         THEN get_obj_scan(list, list.objs[obj].prev, listidx - 1, index, backward)
         ELSE get_obj_scan(list, list.objs[obj].next, listidx + 1, index, backward)

\* an index adjustment that takes every negative index for the last element
get_obj_index_last(list, index) == IF index < 0 THEN list.num - 1 ELSE index

\* _get_obj, "index adjustment"
get_obj_index(list, index) ==
    IF index < 0 THEN NumPlusIndex(list.num, index) ELSE index

\* _get_obj(): [obj, errno]
_get_obj(list, index) ==
    LET idx == get_obj_index(list, index)
    IN  IF IndexGeqNum(idx, list.num) THEN [obj |-> NIL, errno |-> "ERANGE"]
        ELSE IF idx < list.num \div 2
             THEN get_obj_scan(list, list.first, 0, idx, FALSE)
             ELSE get_obj_scan(list, list.last, list.num - 1, idx, TRUE)

_remove_obj(list, obj) ==
    LET o == list.objs[obj]
        l1 == IF o.prev = NIL THEN [list EXCEPT !.first = o.next]
              ELSE [list EXCEPT !.objs[o.prev].next = o.next]
        l2 == IF o.next = NIL THEN [l1 EXCEPT !.last = o.prev]
              ELSE [l1 EXCEPT !.objs[o.next].prev = o.prev]
    IN  [l2 EXCEPT !.datasum = @ - o.size, !.num = @ - 1, !.objs[obj] = NoObj]

\* _get_at(): the copy of the data is taken before the object is removed
_get_at(list, index, remove) ==
    LET found == _get_obj(list, index)
    IN  IF found.obj = NIL THEN ListResult("NULL", found.errno, list, <<>>)
        ELSE ListResult("data", "none",
                        IF remove THEN _remove_obj(list, found.obj) ELSE list,
                        list.objs[found.obj].data)

get_at(list, index) == _get_at(list, index, FALSE)
pop_at(list, index) == _get_at(list, index, TRUE)
get_first(list) == get_at(list, 0)
get_last(list) == get_at(list, -1)
pop_first(list) == pop_at(list, 0)
pop_last(list) == pop_at(list, -1)

remove_at(list, index) ==
    LET found == _get_obj(list, index)
    IN  IF found.obj = NIL THEN ListResult("false", found.errno, list, <<>>)
        ELSE ListResult("true", "none", _remove_obj(list, found.obj), <<>>)

\* add_at, "make link": obj is the new object, index is adjusted
add_at_link(list, obj, index, data) ==
    LET new == [used |-> TRUE, data |-> data, size |-> Len(data),
                prev |-> NIL, next |-> NIL]
        tgt == _get_obj(list, index).obj
    IN  IF index = 0
        THEN LET l1 == [list EXCEPT !.objs[obj] = [new EXCEPT !.next = list.first]]
                 l2 == IF list.first # NIL
                       THEN [l1 EXCEPT !.objs[list.first].prev = obj] ELSE l1
             IN  [l2 EXCEPT !.first = obj,
                            !.last = IF list.last = NIL THEN obj ELSE @]
        ELSE IF index = list.num
        THEN LET l1 == [list EXCEPT !.objs[obj] = [new EXCEPT !.prev = list.last]]
                 l2 == IF list.last # NIL
                       THEN [l1 EXCEPT !.objs[list.last].next = obj] ELSE l1
             IN  [l2 EXCEPT !.last = obj,
                            !.first = IF list.first = NIL THEN obj ELSE @]
        ELSE [list EXCEPT !.objs[list.objs[tgt].prev].next = obj,
                          !.objs[obj] = [new EXCEPT !.prev = list.objs[tgt].prev,
                                                    !.next = tgt],
                          !.objs[tgt].prev = obj]

\* a limit test that lets one element more in: not the test of add_at
add_full_late(list) == list.max > 0 /\ list.num > list.max

\* add_at, "check maximum number of allowed elements if set"
add_full(list) == list.max > 0 /\ list.num >= list.max

\* add_at, "adjust index"
add_index(list, index) ==
    IF index < 0
    THEN ToInt(SizeAdd(SizeAdd(SizeT(list.num), IntToSizeT(index)), SizeT(1)))
    ELSE index

add_at(list, index, data) ==
    LET idx == add_index(list, index)
        obj == malloc_obj(list)
    IN  IF data = NULL \/ Len(data) <= 0 THEN ListResult("false", "EINVAL", list, <<>>)
        ELSE IF add_full(list) THEN ListResult("false", "ENOBUFS", list, <<>>)
        ELSE IF idx < 0 \/ IndexGtNum(idx, list.num)
             THEN ListResult("false", "ERANGE", list, <<>>)
        ELSE IF obj = NIL THEN ListResult("false", "ENOMEM", list, <<>>)
        ELSE IF idx # 0 /\ idx # list.num /\ _get_obj(list, idx).obj = NIL
             THEN ListResult("false", "EAGAIN", list, <<>>)
        ELSE LET linked == add_at_link(list, obj, idx, data)
             IN  ListResult("true", "none",
                            [linked EXCEPT !.datasum = @ + Len(data), !.num = @ + 1],
                            <<>>)

add_first(list, data) == add_at(list, 0, data)
add_last(list, data) == add_at(list, -1, data)

\* set_size(): data is not used, ret is the limit before the call
set_size(list, max) == ListResult(list.max, "none", [list EXCEPT !.max = max], <<>>)

\* reverse(), the loop: next and prev of obj and of the objects after it are
\* exchanged
RECURSIVE reverse_loop(_, _)
reverse_loop(list, obj) ==
    IF obj = NIL THEN list
    ELSE reverse_loop([list EXCEPT !.objs[obj].next = list.objs[obj].prev,
                                   !.objs[obj].prev = list.objs[obj].next],
                      list.objs[obj].next)

\* a reversal that turns the links and leaves first and last
reverse_links(list) == reverse_loop(list, list.first)

\* reverse()
reverse(list) ==
    LET turned == reverse_loop(list, list.first)
    IN  [turned EXCEPT !.first = list.last, !.last = list.first]

\* clear(), the loop: obj and the objects after it are freed
RECURSIVE clear_loop(_, _)
clear_loop(list, obj) ==
    IF obj = NIL THEN list
    ELSE clear_loop([list EXCEPT !.objs[obj] = NoObj], list.objs[obj].next)

\* clear() of qlist
qlist_clear(list) ==
    [clear_loop(list, list.first) EXCEPT !.num = 0, !.datasum = 0,
                                         !.first = NIL, !.last = NIL]

\* qqueue: push adds after the last element
qqueue_push_first(list, data) == add_first(list, data)
qqueue_push(list, data) == add_last(list, data)
qqueue_pop(list) == pop_first(list)

\* qstack: push adds before the first element
qstack_push_last(list, data) == add_last(list, data)
qstack_push(list, data) == add_first(list, data)
qstack_pop(list) == pop_first(list)

\* ------------------------------------------------------------ state machine

VARIABLES
    tbl,    \* the table in the caller's memory
    amap,   \* what a key -> value map would hold after the same calls
    last,   \* the last call: [op, key, size, ret, errno]
    twin,   \* [tbl, phase]: a second table that gets the same calls, except
            \* the first put of TwinKey (SpecTwin only)
    list,   \* the qlist_t of a list, a queue or a stack, with its objects
    pushed  \* the elements pushed on the queue or stack and not popped since,
            \* the oldest first

vars == <<tbl, amap, last, twin, list, pushed>>

\* the mark of a key the map does not hold
NoValue == <<257>>

\* size is the size argument of put, -1 where there is no value
Call(op, key, size, ret, errno) ==
    [op |-> op, key |-> key, size |-> size, ret |-> ret, errno |-> errno]

SizeOf(value) == IF value = NULL THEN -1 ELSE Len(value)

\* the second table before any call
Twin0(maxslots) == [tbl |-> qhasharr(maxslots), phase |-> "before"]

Init ==
    /\ tbl = qhasharr(MaxSlots)
    /\ amap = [k \in Keys |-> NoValue]
    /\ last = Call("qhasharr", NULL, -1, "true", "none")
    /\ twin = Twin0(tbl.maxslots)
    /\ list = qlist
    /\ pushed = <<>>

\* no call follows one that never returns
Running == last.ret # "hang"

CountersInBounds == tbl.usedslots >= -MaxDeficit /\ tbl.num >= -MaxDeficit

DoPut(key, value) ==
    /\ Running
    /\ CountersInBounds
    /\ LET r == put(tbl, key, value)
       IN  /\ tbl' = r.tbl
           /\ last' = Call("put", key, SizeOf(value), r.ret, r.errno)
           /\ amap' = IF r.ret = "true" THEN [amap EXCEPT ![key] = value] ELSE amap
    /\ UNCHANGED <<twin, list, pushed>>

DoRemove(key) ==
    /\ Running
    /\ CountersInBounds
    /\ LET r == remove_(tbl, key)
       IN  /\ tbl' = r.tbl
           /\ last' = Call("remove", key, -1, r.ret, r.errno)
           /\ amap' = IF r.ret = "true" THEN [amap EXCEPT ![key] = NoValue] ELSE amap
    /\ UNCHANGED <<twin, list, pushed>>

DoGet(key) ==
    /\ Running
    /\ last' = Call("get", key, -1, get(tbl, key).ret, get(tbl, key).errno)
    /\ UNCHANGED <<tbl, amap, twin, list, pushed>>

\* the cursor a caller's loop passes to getnext: where the last getnext left
\* it, and 0 when the loop starts
Cursor == IF last.op = "getnext" /\ last.ret = "true" THEN last.idx ELSE 0

\* a getnext call: the name and the size it returned, and the cursor after it
CallNext(r) ==
    [op |-> "getnext", key |-> IF r.ret = "true" THEN r.name ELSE NULL,
     size |-> IF r.ret = "true" THEN Len(r.data) ELSE -1,
     ret |-> r.ret, errno |-> r.errno, idx |-> r.idx]

DoGetNext ==
    /\ Running
    /\ last' = CallNext(getnext(tbl, Cursor))
    /\ UNCHANGED <<tbl, amap, twin, list, pushed>>

DoClear ==
    /\ Running
    /\ tbl' = clear(tbl)
    /\ last' = Call("clear", NULL, -1, "true", "none")
    /\ amap' = [k \in Keys |-> NoValue]
    /\ UNCHANGED <<twin, list, pushed>>

\* a table of MaxSlots slots, three keys (two of them in one bucket), values
\* of every length class, the null pointers
Next ==
    \/ \E args \in PutArgs : DoPut(args[1], args[2])
    \/ \E key \in PutKeys \cup {NULL} : DoRemove(key)
    \/ \E key \in PutKeys \cup {NULL} : DoGet(key)
    \/ DoGetNext
    \/ DoClear

Spec == Init /\ [][Next]_vars

\* a table of MaxSlots + 1 slots and four keys whose buckets are 0, 0, 1, 2:
\* the calls that move a displaced entry and then its extension slot
InitReloc ==
    /\ tbl = qhasharr(MaxSlots + 1)
    /\ amap = [k \in Keys |-> NoValue]
    /\ last = Call("qhasharr", NULL, -1, "true", "none")
    /\ twin = Twin0(tbl.maxslots)
    /\ list = qlist
    /\ pushed = <<>>

NextReloc ==
    \/ \E args \in RelocArgs : DoPut(args[1], args[2])
    \/ \E key \in RelocRemoves : DoRemove(key)
    \/ DoGetNext

SpecReloc == InitReloc /\ [][NextReloc]_vars

\* the key whose first put the second table does not get, the values it is
\* put with, and the calls made with the other keys
TwinKey == KeyL1
TwinValues == {Val0, Val1, Val99}
TwinOtherArgs == {<<KeyL2, Val33>>, <<KeyS1, Val1>>}
TwinOtherKeys == {KeyL2, KeyS1}

\* put with another key than TwinKey, on both tables
TwinPutOther(key, value) ==
    /\ Running
    /\ CountersInBounds
    /\ twin.phase \in {"before", "held"}
    /\ LET r == put(tbl, key, value)
       IN  /\ tbl' = r.tbl
           /\ last' = Call("put", key, SizeOf(value), r.ret, r.errno)
           /\ amap' = IF r.ret = "true" THEN [amap EXCEPT ![key] = value] ELSE amap
    /\ twin' = [twin EXCEPT !.tbl = put(twin.tbl, key, value).tbl]
    /\ UNCHANGED <<list, pushed>>

\* remove with another key than TwinKey, on both tables
TwinRemoveOther(key) ==
    /\ Running
    /\ CountersInBounds
    /\ twin.phase \in {"before", "held"}
    /\ LET r == remove_(tbl, key)
       IN  /\ tbl' = r.tbl
           /\ last' = Call("remove", key, -1, r.ret, r.errno)
           /\ amap' = IF r.ret = "true" THEN [amap EXCEPT ![key] = NoValue] ELSE amap
    /\ twin' = [twin EXCEPT !.tbl = remove_(twin.tbl, key).tbl]
    /\ UNCHANGED <<list, pushed>>

\* the first put of TwinKey: the second table does not get it
TwinPutKey(value) ==
    /\ Running
    /\ twin.phase = "before"
    /\ LET r == put(tbl, TwinKey, value)
       IN  /\ tbl' = r.tbl
           /\ last' = Call("put", TwinKey, SizeOf(value), r.ret, r.errno)
           /\ amap' = IF r.ret = "true" THEN [amap EXCEPT ![TwinKey] = value] ELSE amap
           /\ twin' = [twin EXCEPT !.phase = IF r.ret = "true" THEN "held" ELSE @]
           /\ UNCHANGED <<list, pushed>>

\* remove(TwinKey) on the table that holds it
TwinRemoveKey ==
    /\ Running
    /\ twin.phase = "held"
    /\ LET r == remove_(tbl, TwinKey)
       IN  /\ tbl' = r.tbl
           /\ last' = Call("remove", TwinKey, -1, r.ret, r.errno)
           /\ amap' = IF r.ret = "true" THEN [amap EXCEPT ![TwinKey] = NoValue] ELSE amap
           /\ twin' = [twin EXCEPT !.phase = IF r.ret = "true" THEN "removed" ELSE @]
           /\ UNCHANGED <<list, pushed>>

\* put(TwinKey, value) right after the remove, on both tables
TwinReput(value) ==
    /\ Running
    /\ twin.phase = "removed"
    /\ LET r == put(tbl, TwinKey, value)
       IN  /\ tbl' = r.tbl
           /\ last' = Call("put", TwinKey, SizeOf(value), r.ret, r.errno)
           /\ amap' = IF r.ret = "true" THEN [amap EXCEPT ![TwinKey] = value] ELSE amap
    /\ twin' = [tbl |-> put(twin.tbl, TwinKey, value).tbl, phase |-> "done"]
    /\ UNCHANGED <<list, pushed>>

\* calls on two tables of MaxSlots slots: one gets put(TwinKey), later
\* remove(TwinKey) and put(TwinKey) again; the other gets the same calls
\* without the first put and the remove
NextTwin ==
    \/ \E args \in TwinOtherArgs : TwinPutOther(args[1], args[2])
    \/ \E key \in TwinOtherKeys : TwinRemoveOther(key)
    \/ \E value \in TwinValues : TwinPutKey(value)
    \/ TwinRemoveKey
    \/ \E value \in TwinValues : TwinReput(value)

SpecTwin == Init /\ [][NextTwin]_vars

\* construction alone: the memory sizes around the header and the first
\* slots, and the sizes whose slot count does not fit an int
MaxCapacity == 6

\* how far from a multiple of the slot size the memory sizes go
NearBy == 3

\* no memory, one byte, and the sizes at most NearBy bytes from the header
\* plus a whole number of slots
SmallSizes ==
    {SizeT(n) : n \in {0, 1} \cup {HEADER_SIZE + k * SLOT_SIZE + d :
                                   k \in 0..(MaxCapacity + 1), d \in (-NearBy)..NearBy}}

\* slot counts 2^31, 2^32 - 1, 2^32 and 2^32 + 2
HugeCounts == {<<0, INT_SIGN, 0, 0>>, <<LIMB - 1, LIMB - 1, 0, 0>>,
               <<0, 0, 1, 0>>, <<2, 0, 1, 0>>}

HugeSizes == {SizeAdd(SizeT(HEADER_SIZE), SizeMul(q, SLOT_SIZE)) : q \in HugeCounts}

MemSizes == SmallSizes \cup HugeSizes

CallSize(memsize, r) ==
    [op |-> "qhasharr", key |-> NULL, size |-> -1, memsize |-> memsize,
     ret |-> r.ret, errno |-> r.errno]

\* a memory no table was built on yet
InitSize ==
    /\ tbl = NULL
    /\ amap = [k \in Keys |-> NoValue]
    /\ last = [op |-> "none", key |-> NULL, size |-> -1, memsize |-> SizeT(0),
               ret |-> "none", errno |-> "none"]
    /\ twin = Twin0(MaxSlots)
    /\ list = qlist
    /\ pushed = <<>>

DoConstruct(memsize) ==
    LET r == qhasharr_new(tbl, memsize)
    IN  /\ tbl' = r.tbl
        /\ last' = CallSize(memsize, r)
        /\ UNCHANGED <<amap, twin, list, pushed>>

\* a memory of the size computed for max slots, or less bytes fewer
DoConstructFor(max, less) ==
    DoConstruct(SizeSub(qhasharr_calculate_memsize(max), SizeT(less)))

NextSize ==
    \/ \E memsize \in MemSizes : DoConstruct(memsize)
    \/ \E max \in 1..MaxCapacity, less \in 0..1 : DoConstructFor(max, less)

SpecSize == InitSize /\ [][NextSize]_vars

\* the integer calls on the table of Spec, among puts of no bytes and removes
IntKeys == {KeyL1, KeyL2}
IntNums == {SizeT(0), INT64_MIN, INT64_MAX}

CallInt(op, key, num, ret, errno) ==
    [op |-> op, key |-> key, size |-> -1, num |-> num, ret |-> ret, errno |-> errno]

DoPutInt(key, num) ==
    /\ Running
    /\ CountersInBounds
    /\ LET r == putint(tbl, key, num)
       IN  /\ tbl' = r.tbl
           /\ last' = CallInt("putint", key, num, r.ret, r.errno)
           /\ amap' = IF r.ret = "true"
                      THEN [amap EXCEPT ![key] = snprintf_d64(num) \o <<CH_NUL>>]
                      ELSE amap
    /\ UNCHANGED <<twin, list, pushed>>

\* where atoll is not defined the caller gets any number
DoGetInt(key) ==
    /\ Running
    /\ LET r == getint(tbl, key)
       IN  \E num \in (IF r.defined THEN {r.num} ELSE IntNums) :
               last' = CallInt("getint", key, num, r.ret, r.errno)
    /\ UNCHANGED <<tbl, amap, twin, list, pushed>>

NextInt ==
    \/ \E key \in IntKeys, num \in IntNums : DoPutInt(key, num)
    \/ \E key \in Keys : DoGetInt(key)
    \/ \E key \in IntKeys : DoPut(key, Val0)
    \/ \E key \in IntKeys : DoRemove(key)

SpecInt == Init /\ [][NextInt]_vars

\* the data of the elements: ListData for the calls, NULL and no bytes for
\* the argument check
ListData == {<<1>>, <<2>>, <<3, 3>>}
ListLimits == 0..MaxObjs

\* a list, queue or stack call: index and data are its arguments (NoIndex
\* where it has none); result is the data it returned, if any
NoIndex == -99

CallList(op, index, data, r) ==
    [op |-> op, key |-> NULL, size |-> SizeOf(data), index |-> index,
     data |-> data, ret |-> r.ret, errno |-> r.errno, result |-> r.data]

QueueSetSize(max) ==
    /\ list' = set_size(list, max).list
    /\ last' = CallList("qqueue.set_size", max, NULL, set_size(list, max))
    /\ UNCHANGED <<tbl, amap, twin, pushed>>

QueuePush(data) ==
    LET r == qqueue_push(list, data)
    IN  /\ list' = r.list
        /\ pushed' = IF r.ret = "true" THEN Append(pushed, data) ELSE pushed
        /\ last' = CallList("qqueue.push", NoIndex, data, r)
        /\ UNCHANGED <<tbl, amap, twin>>

QueuePop ==
    LET r == qqueue_pop(list)
    IN  /\ list' = r.list
        /\ pushed' = IF r.ret = "data" /\ pushed # <<>> THEN Tail(pushed) ELSE pushed
        /\ last' = CallList("qqueue.pop", NoIndex, NULL, r)
        /\ UNCHANGED <<tbl, amap, twin>>

NextQueue ==
    \/ \E max \in ListLimits : QueueSetSize(max)
    \/ \E data \in ListData : QueuePush(data)
    \/ QueuePop

SpecQueue == Init /\ [][NextQueue]_vars

StackSetSize(max) ==
    /\ list' = set_size(list, max).list
    /\ last' = CallList("qstack.set_size", max, NULL, set_size(list, max))
    /\ UNCHANGED <<tbl, amap, twin, pushed>>

StackPush(data) ==
    LET r == qstack_push(list, data)
    IN  /\ list' = r.list
        /\ pushed' = IF r.ret = "true" THEN Append(pushed, data) ELSE pushed
        /\ last' = CallList("qstack.push", NoIndex, data, r)
        /\ UNCHANGED <<tbl, amap, twin>>

StackPop ==
    LET r == qstack_pop(list)
    IN  /\ list' = r.list
        /\ pushed' = IF r.ret = "data" /\ pushed # <<>>
                     THEN SubSeq(pushed, 1, Len(pushed) - 1) ELSE pushed
        /\ last' = CallList("qstack.pop", NoIndex, NULL, r)
        /\ UNCHANGED <<tbl, amap, twin>>

NextStack ==
    \/ \E max \in ListLimits : StackSetSize(max)
    \/ \E data \in ListData : StackPush(data)
    \/ StackPop

SpecStack == Init /\ [][NextStack]_vars

\* the list calls: every index from one before the first negative index of
\* add_at on a full list to one after its last index, data that add_at takes
\* and data that it refuses
ListIndexes == (-(MaxObjs + 2))..(MaxObjs + 1)
ListArgs == {<<1>>, <<3, 3>>, NULL, <<>>}

ListSetSize(max) ==
    /\ list' = set_size(list, max).list
    /\ last' = CallList("set_size", max, NULL, set_size(list, max))
    /\ UNCHANGED <<tbl, amap, twin, pushed>>

ListAddFirst(data) ==
    LET r == add_first(list, data)
    IN  /\ list' = r.list
        /\ last' = CallList("add_first", 0, data, r)
        /\ UNCHANGED <<tbl, amap, twin, pushed>>

ListAddLast(data) ==
    LET r == add_last(list, data)
    IN  /\ list' = r.list
        /\ last' = CallList("add_last", -1, data, r)
        /\ UNCHANGED <<tbl, amap, twin, pushed>>

ListAddAt(index, data) ==
    LET r == add_at(list, index, data)
    IN  /\ list' = r.list
        /\ last' = CallList("add_at", index, data, r)
        /\ UNCHANGED <<tbl, amap, twin, pushed>>

ListGetAt(index) ==
    LET r == get_at(list, index)
    IN  /\ list' = r.list
        /\ last' = CallList("get_at", index, NULL, r)
        /\ UNCHANGED <<tbl, amap, twin, pushed>>

ListPopAt(index) ==
    LET r == pop_at(list, index)
    IN  /\ list' = r.list
        /\ last' = CallList("pop_at", index, NULL, r)
        /\ UNCHANGED <<tbl, amap, twin, pushed>>

ListRemoveAt(index) ==
    LET r == remove_at(list, index)
    IN  /\ list' = r.list
        /\ last' = CallList("remove_at", index, NULL, r)
        /\ UNCHANGED <<tbl, amap, twin, pushed>>

NextList ==
    \/ \E max \in ListLimits : ListSetSize(max)
    \/ \E data \in ListArgs : ListAddFirst(data)
    \/ \E data \in ListArgs : ListAddLast(data)
    \/ \E index \in ListIndexes, data \in ListArgs : ListAddAt(index, data)
    \/ \E index \in ListIndexes : ListGetAt(index)
    \/ \E index \in ListIndexes : ListPopAt(index)
    \/ \E index \in ListIndexes : ListRemoveAt(index)

SpecList == Init /\ [][NextList]_vars

\* ------------------------------------------------------------ observations

\* the mark of a get that never returns
Hangs == <<258>>

\* what get(key) gives the caller: the value, or NoValue when not found
Lookup(t, key) ==
    IF get(t, key).ret = "true" THEN get(t, key).data
    ELSE IF get(t, key).ret = "false" THEN NoValue
    ELSE Hangs

\* the key slots (leading or displaced entries) of a table
KeySlots(t) ==
    {i \in 0..(t.maxslots - 1) : t.slots[i].count > 0 \/ t.slots[i].count = -1}

\* the slots that are not empty
UsedSlots(t) == {i \in 0..(t.maxslots - 1) : t.slots[i].count # 0}

\* the keys get finds
Found(t) == {k \in Keys : get(t, k).ret = "true"}

\* ------------------------------------------------------------ claims

\* C1: after any sequence of put, remove and clear on a fresh table, get(k)
\* returns for every key k the value of the most recent successful put(k) not
\* since followed by a successful remove(k) or a clear, and not-found otherwise.
C1_GetRefinesMap == \A k \in Keys : Lookup(tbl, k) = amap[k]

\* C2: if put(key, value, size) returns true, a get(key) right after it
\* returns exactly size bytes, equal to value.
C2_RoundTrip ==
    (last.op = "put" /\ last.ret = "true")
        => /\ get(tbl, last.key).ret = "true"
           /\ Len(get(tbl, last.key).data) = last.size
           /\ get(tbl, last.key).data = amap[last.key]

\* C3: when put(k, v1) and then put(k, v2) both succeed, get(k) returns v2
\* and num is the same after the second put as after the first.
C3_Overwrite ==
    [][(last'.op = "put" /\ last'.ret = "true" /\ amap[last'.key] # NoValue)
          => /\ Lookup(tbl', last'.key) = amap'[last'.key]
             /\ tbl'.num = tbl.num]_vars

\* two distinct keys of one bucket
SameBucket(k1, k2) ==
    k1 # k2 /\ KeyHash(k1, tbl.maxslots) = KeyHash(k2, tbl.maxslots)

\* C4: two distinct keys of one bucket that were both put are each retrievable
\* with their own value, and removing either leaves the other retrievable with
\* its value unchanged.
C4_Collision ==
    [][/\ \A k1, k2 \in Keys :
              (SameBucket(k1, k2) /\ amap'[k1] # NoValue /\ amap'[k2] # NoValue)
                  => Lookup(tbl', k1) = amap'[k1] /\ Lookup(tbl', k2) = amap'[k2]
       /\ (last'.op = "remove" /\ last'.ret = "true")
              => \A k2 \in Keys :
                     (SameBucket(last'.key, k2) /\ amap[k2] # NoValue)
                         => Lookup(tbl', k2) = Lookup(tbl, k2)]_vars

\* C5: a put that returns false leaves every key that was retrievable before
\* the call retrievable with the same value.
C5_FailedPutKeepsEntries ==
    [][(last'.op = "put" /\ last'.ret = "false")
          => \A k \in Keys :
                 get(tbl, k).ret = "true" => Lookup(tbl', k) = Lookup(tbl, k)]_vars

\* the values a put is tried with on a full table
FullValues == {Val0, Val1, Val33}

\* C6: whenever usedslots >= maxslots, put with any key, stored or not, fails
\* with ENOBUFS and leaves every slot and both counters unchanged; a table never
\* holds more than maxslots keys, and once every slot is occupied a put of a key
\* that is not stored fails with ENOBUFS and changes nothing.
C6_TableFull ==
    /\ tbl.usedslots >= tbl.maxslots
           => \A k \in Keys, v \in FullValues :
                  put(tbl, k, v) = Result("false", "ENOBUFS", tbl)
    /\ Cardinality(Found(tbl)) <= tbl.maxslots
    /\ Cardinality(UsedSlots(tbl)) = tbl.maxslots
           => \A k \in Keys \ Found(tbl), v \in FullValues :
                  put(tbl, k, v) = Result("false", "ENOBUFS", tbl)

\* C6 happens: a put of a key that is stored was refused with ENOBUFS on a table
\* whose usedslots had reached maxslots.
C6_Witness ==
    /\ last.op = "put" /\ last.ret = "false" /\ last.errno = "ENOBUFS"
    /\ tbl.usedslots >= tbl.maxslots
    /\ amap[last.key] # NoValue

\* C7: num equals the number of key slots (count > 0 or count = -1), which is
\* the number of keys get finds.
C7_NumCountsKeys ==
    /\ tbl.num = Cardinality(KeySlots(tbl))
    /\ tbl.num = Cardinality(Found(tbl))

\* C8: usedslots equals the number of slots whose count is not zero, and
\* 0 <= num <= usedslots <= maxslots.
C8_UsedCountsSlots ==
    /\ tbl.usedslots = Cardinality(UsedSlots(tbl))
    /\ 0 <= tbl.num
    /\ tbl.num <= tbl.usedslots
    /\ tbl.usedslots <= tbl.maxslots

\* the key slots whose hash field is h
BucketSlots(t, h) == {i \in KeySlots(t) : t.slots[i].hash = h}

\* C9: for every bucket h, if an entry of bucket h is stored then slot h is the
\* leading slot of the bucket (count > 0, hash = h) and its count is the number
\* of key slots whose hash field is h; otherwise slot h has no count > 0.
C9_BucketCount ==
    \A h \in 0..(tbl.maxslots - 1) :
        IF BucketSlots(tbl, h) # {}
        THEN /\ tbl.slots[h].count > 0
             /\ tbl.slots[h].hash = h
             /\ tbl.slots[h].count = Cardinality(BucketSlots(tbl, h))
        ELSE tbl.slots[h].count <= 0

\* two distinct keys longer than the key field, of one length, with the same
\* first Q_HASHARR_KEYSIZE bytes and different MD5 digests
Truncated(k1, k2) ==
    /\ k1 # k2
    /\ Len(k1) > Q_HASHARR_KEYSIZE
    /\ Len(k1) = Len(k2)
    /\ Strncpy(k1) = Strncpy(k2)
    /\ qhashmd5(k1) # qhashmd5(k2)

\* C10: two such keys are stored as two entries: when both were put, get on
\* each returns its own value, and a remove of one leaves what get returns for
\* the other unchanged.
C10_TruncatedKeys ==
    [][/\ \A k1, k2 \in Keys :
              (Truncated(k1, k2) /\ amap'[k1] # NoValue /\ amap'[k2] # NoValue)
                  => Lookup(tbl', k1) = amap'[k1] /\ Lookup(tbl', k2) = amap'[k2]
       /\ (last'.op = "remove" /\ last'.ret = "true")
              => \A k2 \in Keys :
                     (Truncated(last'.key, k2) /\ amap[k2] # NoValue)
                         => Lookup(tbl', k2) = Lookup(tbl, k2)]_vars

\* getnext called again and again from cursor idx until it returns false: the
\* results in order; a call that never returns ends the sequence with its mark
RECURSIVE getnext_all(_, _)
getnext_all(t, idx) ==
    LET r == getnext(t, idx)
    IN  IF r.ret = "true" THEN <<r>> \o getnext_all(t, r.idx)
        ELSE IF r.ret = "hang" THEN <<r>>
        ELSE <<>>

\* the slot a result of getnext was read from
ResultSlot(r) == r.idx - 1

\* C11: getnext called from cursor 0 until it returns false yields exactly num
\* results; every key get finds is yielded exactly once, with the value get
\* returns for it, and every result is the entry of a key get finds.
C11_IterationComplete ==
    LET all == getnext_all(tbl, 0)
    IN  /\ Len(all) = tbl.num
        /\ \A i \in 1..Len(all) : all[i].ret = "true"
        /\ \A k \in Found(tbl) :
               /\ Cardinality({i \in 1..Len(all) :
                      SameKey(tbl.slots[ResultSlot(all[i])], k)}) = 1
               /\ \A i \in 1..Len(all) :
                      SameKey(tbl.slots[ResultSlot(all[i])], k)
                          => all[i].data = get(tbl, k).data
        /\ \A i \in 1..Len(all) :
               \E k \in Found(tbl) : SameKey(tbl.slots[ResultSlot(all[i])], k)

\* the slots of the storage chain that starts at slot idx: the slot and the
\* slots its links lead to
RECURSIVE ChainSlots(_, _, _)
ChainSlots(t, idx, visited) ==
    IF idx \in visited \/ t.slots[idx].link = -1 THEN visited \cup {idx}
    ELSE ChainSlots(t, t.slots[idx].link, visited \cup {idx})

\* the storage chain of a key that is stored
KeyChain(t, key) == ChainSlots(t, _get_idx(t, key, KeyHash(key, t.maxslots)), {})

\* C12: a remove(k) that returns true makes k not found, decreases num by 1 and
\* usedslots by the number of slots of k's storage chain, and leaves every other
\* key that was found retrievable with an unchanged value.
C12_RemoveFrame ==
    [][(last'.op = "remove" /\ last'.ret = "true")
          => /\ get(tbl', last'.key).ret = "false"
             /\ tbl'.num = tbl.num - 1
             /\ tbl'.usedslots = tbl.usedslots - Cardinality(KeyChain(tbl, last'.key))
             /\ \A k \in Keys \ {last'.key} :
                    get(tbl, k).ret = "true" => Lookup(tbl', k) = Lookup(tbl, k)]_vars

\* what a caller can observe of a table: get of every key, size(), and the
\* set of results of getnext
Observe(t) ==
    [gets |-> [k \in Keys |-> Lookup(t, k)],
     size |-> t.num,
     nexts |-> {<<getnext_all(t, 0)[i].ret, getnext_all(t, 0)[i].name,
                  getnext_all(t, 0)[i].data>> : i \in 1..Len(getnext_all(t, 0))}]

\* C13: on a table that holds k, remove(k) followed by put(k, v) gives a table
\* that get, size() and getnext cannot tell from the table that got the same
\* calls without the earlier put of k, and then put(k, v).
C13_RemoveReinsert ==
    twin.phase = "done" => Observe(tbl) = Observe(twin.tbl)

\* C14: after clear() size() returns 0, usedslots is 0, every slot is empty,
\* get finds no key, and maxslots is what it was.
C14_ClearResets ==
    [][last'.op = "clear"
          => /\ tbl'.num = 0
             /\ tbl'.usedslots = 0
             /\ UsedSlots(tbl') = {}
             /\ Found(tbl') = {}
             /\ tbl'.maxslots = tbl.maxslots]_vars

\* no key slot of the table holds the key
NotStored(t, key) == \A i \in KeySlots(t) : ~SameKey(t.slots[i], key)

\* C15: put with a null key or a null value, and get and remove with a null
\* key, fail with EINVAL; get and remove of a key that no slot holds fail with
\* ENOENT; none of these calls changes a slot or a counter.
C15_ErrorsChangeNothing ==
    [][/\ (last'.op = "put" /\ (last'.key = NULL \/ last'.size = -1))
              => last'.ret = "false" /\ last'.errno = "EINVAL" /\ tbl' = tbl
       /\ (last'.op \in {"get", "remove"} /\ last'.key = NULL)
              => last'.ret = "false" /\ last'.errno = "EINVAL" /\ tbl' = tbl
       /\ (last'.op \in {"get", "remove"} /\ last'.key # NULL
               /\ NotStored(tbl, last'.key))
              => last'.ret = "false" /\ last'.errno = "ENOENT" /\ tbl' = tbl]_vars

\* C15 happens: a remove of a key that no slot holds came back with ENOENT
\* after the scan of a bucket that is in use.
C15_Witness ==
    /\ last.op = "remove" /\ last.ret = "false" /\ last.errno = "ENOENT"
    /\ NotStored(tbl, last.key)
    /\ tbl.slots[KeyHash(last.key, tbl.maxslots)].count > 0

\* floor((memsize - header_size) / slot_size) of a memsize above the header
Floor(memsize) == SizeDiv(SizeSub(memsize, SizeT(HEADER_SIZE)), SLOT_SIZE)

\* C16: qhasharr(memory, memsize) returns NULL with EINVAL exactly when
\* memsize <= header_size or floor((memsize - header_size) / slot_size) < 1;
\* otherwise it returns the memory, with capacity equal to that floor, no used
\* slot, no key and every slot empty.
C16_Construction ==
    last.op = "qhasharr" =>
        IF SizeLeq(last.memsize, SizeT(HEADER_SIZE)) \/ Floor(last.memsize) = SizeT(0)
        THEN last.ret = "NULL" /\ last.errno = "EINVAL"
        ELSE /\ last.ret = "memory"
             /\ IntToSizeT(tbl.maxslots) = Floor(last.memsize)
             /\ tbl.usedslots = 0
             /\ tbl.num = 0
             /\ \A i \in 0..(tbl.maxslots - 1) : tbl.slots[i] = ZeroSlot

\* slot counts too large to build a table for: only their arithmetic is checked
LargeCapacities == {LIMB - 1, LIMB, (INT_SIGN - 1) * LIMB + (LIMB - 1)}

\* C17: for every n >= 1, a table constructed on a buffer of exactly
\* qhasharr_calculate_memsize(n) bytes has capacity n; on a buffer one byte
\* smaller it has capacity n - 1, and the construction fails when n = 1.
C17_SizingRoundTrip ==
    /\ \A n \in 1..MaxCapacity :
          /\ (last.op = "qhasharr" /\ last.memsize = qhasharr_calculate_memsize(n))
                => last.ret = "memory" /\ tbl.maxslots = n
          /\ (last.op = "qhasharr"
                /\ last.memsize = SizeSub(qhasharr_calculate_memsize(n), SizeT(1)))
                => IF n = 1 THEN last.ret = "NULL" /\ last.errno = "EINVAL"
                   ELSE last.ret = "memory" /\ tbl.maxslots = n - 1
    /\ \A n \in LargeCapacities :
          /\ qhasharr_maxslots(qhasharr_calculate_memsize(n)) = n
          /\ qhasharr_maxslots(SizeSub(qhasharr_calculate_memsize(n), SizeT(1))) = n - 1

C17_Witness ==
    /\ last.op = "qhasharr"
    /\ last.memsize = SizeSub(qhasharr_calculate_memsize(MaxCapacity), SizeT(1))
    /\ last.ret = "memory"
    /\ tbl.maxslots = MaxCapacity - 1

\* C18: every public operation terminates on every state reachable through
\* the public API: no call fails to return, and on the table it leaves every
\* chain walk of get and of the iteration reaches the end of its chain.
C18_Terminates ==
    /\ last.ret # "hang"
    /\ \A k \in Keys : Lookup(tbl, k) # Hangs
    /\ \A i \in KeySlots(tbl) : ~_get_data(tbl, i).hang

\* C19: when every public operation runs atomically (the caller holds a lock
\* around each call), no state is reachable in which an entry whose put
\* returned true is not retrievable or usedslots differs from the number of
\* occupied slots. (Without the lock the calls of two processes interleave
\* inside the operations; every behaviour of whole calls is one of those
\* interleavings.)
C19_LockedSafe ==
    /\ \A k \in Keys : amap[k] # NoValue => get(tbl, k).ret = "true"
    /\ tbl.usedslots = Cardinality(UsedSlots(tbl))

\* C20: after putint(k, n) succeeds getint(k) returns n, for every int64_t
\* n; getint of a key that is not stored returns 0 with errno ENOENT.
C20_IntRoundTrip ==
    /\ (last.op = "putint" /\ last.ret = "true")
          => /\ getint(tbl, last.key).ret = "returned"
             /\ getint(tbl, last.key).defined
             /\ getint(tbl, last.key).num = last.num
    /\ \A k \in Keys :
          NotStored(tbl, k)
             => /\ getint(tbl, k).ret = "returned"
                /\ getint(tbl, k).num = SizeT(0)
                /\ getint(tbl, k).errno = "ENOENT"

C20_Witness ==
    /\ last.op = "putint"
    /\ last.ret = "true"
    /\ last.num = INT64_MIN
    /\ getint(tbl, last.key).num = INT64_MIN
    /\ tbl.slots[KeyHash(last.key, tbl.maxslots)].count > 1
    /\ \E k \in Keys : NotStored(tbl, k) /\ getint(tbl, k).errno = "ENOENT"

RECURSIVE elements_from(_, _, _)
elements_from(l, obj, n) ==
    IF obj = NIL \/ n = 0 THEN <<>>
    ELSE <<l.objs[obj].data>> \o elements_from(l, l.objs[obj].next, n - 1)

\* the data of the elements of a list, from the first on (at most MaxObjs + 1,
\* should the links go round)
Elements(l) == elements_from(l, l.first, MaxObjs + 1)

Reverse(seq) == [i \in 1..Len(seq) |-> seq[Len(seq) + 1 - i]]

C22_Lifo ==
    [][/\ (last'.op = "qstack.pop" /\ pushed # <<>>)
             => /\ last'.ret = "data"
                /\ last'.result = pushed[Len(pushed)]
                /\ Elements(list') = Reverse(SubSeq(pushed, 1, Len(pushed) - 1))
       /\ Elements(list') = Reverse(pushed')]_vars

C22_Witness ==
    /\ last.op = "qstack.pop"
    /\ last.ret = "data"
    /\ Len(pushed) = MaxObjs - 1
    /\ last.result # pushed[1]
    /\ last.result # pushed[Len(pushed)]

\* the calls that add an element
AddOps == {"add_first", "add_last", "add_at"}

\* data that add_at refuses before it looks at the list
BadData(data) == data = NULL \/ Len(data) = 0

\* the limit part of C23 that does not depend on the error kind: with a limit
\* in effect and not exceeded no call takes the list over it, and without a
\* limit no add fails with ENOBUFS
LimitKept ==
    /\ (list.max > 0 /\ list.num <= list.max /\ last'.op # "set_size")
          => list'.num <= list'.max
    /\ (last'.op \in AddOps /\ list.max = 0) => last'.errno # "ENOBUFS"

\* C23 as stated: once set_size(max) with max > 0 is in effect, add_first,
\* add_last and add_at fail with ENOBUFS whenever the list already holds max
\* or more elements and leave the list unchanged, so a list within its limit
\* stays within it; max = 0 means no limit.
C23_SizeLimit ==
    [][/\ (last'.op \in AddOps /\ list.max > 0 /\ list.num >= list.max)
             => last'.ret = "false" /\ last'.errno = "ENOBUFS" /\ list' = list
       /\ LimitKept]_vars

\* C23 with the order of the tests of add_at: a call with data NULL or size 0
\* fails with EINVAL, whatever the list holds; every other add on a list that
\* holds max or more elements fails with ENOBUFS; the list is unchanged.
C23_SizeLimitValid ==
    [][/\ (last'.op \in AddOps /\ list.max > 0 /\ list.num >= list.max)
             => /\ last'.ret = "false"
                /\ last'.errno = IF BadData(last'.data) THEN "EINVAL" ELSE "ENOBUFS"
                /\ list' = list
       /\ LimitKept]_vars

C23_Witness ==
    /\ last.op \in AddOps
    /\ last.errno = "ENOBUFS"
    /\ list.max > 0
    /\ list.max < MaxObjs
    /\ list.num = list.max

\* the position (from 0) that index i names in a list of n elements for
\* get_at, pop_at and remove_at, and NoIndex where it names none
Position(i, n) ==
    IF 0 <= i /\ i <= n - 1 THEN i
    ELSE IF -n <= i /\ i <= -1 THEN n + i
    ELSE NoIndex

\* the position before which add_at adds for index i
AddPosition(i, n) ==
    IF 0 <= i /\ i <= n THEN i
    ELSE IF -(n + 1) <= i /\ i <= -1 THEN n + i + 1
    ELSE NoIndex

InsertAt(seq, pos, d) == SubSeq(seq, 1, pos) \o <<d>> \o SubSeq(seq, pos + 1, Len(seq))
DeleteAt(seq, pos) == SubSeq(seq, 1, pos) \o SubSeq(seq, pos + 2, Len(seq))

\* C24 for get_at, pop_at and remove_at: an index in [0, n-1] addresses the
\* element at that place from the front, -j (1 <= j <= n) addresses element
\* n-j, any other index fails with ERANGE and leaves the list unchanged
IndexReads ==
    LET pos == Position(last'.index, list.num)
    IN  /\ (last'.op = "get_at" /\ pos # NoIndex)
              => /\ last'.ret = "data"
                 /\ last'.result = Elements(list)[pos + 1]
                 /\ list' = list
        /\ (last'.op = "pop_at" /\ pos # NoIndex)
              => /\ last'.ret = "data"
                 /\ last'.result = Elements(list)[pos + 1]
                 /\ Elements(list') = DeleteAt(Elements(list), pos)
                 /\ list'.num = list.num - 1
        /\ (last'.op = "remove_at" /\ pos # NoIndex)
              => /\ last'.ret = "true"
                 /\ Elements(list') = DeleteAt(Elements(list), pos)
                 /\ list'.num = list.num - 1
        /\ (last'.op \in {"get_at", "pop_at", "remove_at"} /\ pos = NoIndex)
              => /\ last'.ret \in {"NULL", "false"}
                 /\ last'.errno = "ERANGE"
                 /\ list' = list

\* C24 for add_at with an index it accepts: unless the data, the limit or
\* malloc make it fail, the element is added before that position
IndexAdds ==
    LET pos == AddPosition(last'.index, list.num)
    IN  (last'.op = "add_at" /\ pos # NoIndex)
            => IF last'.ret = "true"
               THEN /\ Elements(list') = InsertAt(Elements(list), pos, last'.data)
                    /\ list'.num = list.num + 1
               ELSE /\ list' = list
                    /\ \/ BadData(last'.data) /\ last'.errno = "EINVAL"
                       \/ add_full(list) /\ last'.errno = "ENOBUFS"
                       \/ malloc_obj(list) = NIL /\ last'.errno = "ENOMEM"

\* C24 as stated: get_at, pop_at and remove_at address element i from the
\* front for i in [0, n-1] and element n-j for -j; add_at accepts an index in
\* [0, n] and -j for 1 <= j <= n+1; any other index fails with ERANGE and
\* leaves the list unchanged.
C24_IndexAddressing ==
    [][/\ IndexReads
       /\ IndexAdds
       /\ (last'.op = "add_at" /\ AddPosition(last'.index, list.num) = NoIndex)
             => last'.ret = "false" /\ last'.errno = "ERANGE" /\ list' = list]_vars

\* C24 with the order of the tests of add_at: an index that add_at does not
\* accept fails with ERANGE only when the data is valid and the limit is not
\* reached; bad data fails with EINVAL and a list at its limit with ENOBUFS
\* before the index is looked at. The list is unchanged in each case.
C24_IndexAddressingOrdered ==
    [][/\ IndexReads
       /\ IndexAdds
       /\ (last'.op = "add_at" /\ AddPosition(last'.index, list.num) = NoIndex)
             => /\ last'.ret = "false"
                /\ list' = list
                /\ last'.errno = IF BadData(last'.data) THEN "EINVAL"
                                 ELSE IF add_full(list) THEN "ENOBUFS"
                                 ELSE "ERANGE"]_vars

C24_Witness ==
    /\ last.op = "pop_at"
    /\ last.index = -2
    /\ last.ret = "data"
    /\ list.num = MaxObjs - 1
    /\ last.result # Elements(list)[1]
    /\ last.result # Elements(list)[list.num]

\* the extension slots of a table
ExtSlots(t) == {i \in 0..(t.maxslots - 1) : t.slots[i].count = -2}

\* a slot number of the table
IsSlot(t, i) == 0 <= i /\ i <= t.maxslots - 1

\* C25: in every reachable state, the slot named by the back pointer (the hash
\* field) of every extension slot e is an occupied slot whose link is e, and
\* the link of every occupied slot s, when it is not -1, names an extension
\* slot whose back pointer is s.
C25_LinkConsistency ==
    /\ \A e \in ExtSlots(tbl) :
          /\ IsSlot(tbl, tbl.slots[e].hash)
          /\ tbl.slots[tbl.slots[e].hash].count # 0
          /\ tbl.slots[tbl.slots[e].hash].link = e
    /\ \A s \in UsedSlots(tbl) :
          tbl.slots[s].link # -1
             => /\ IsSlot(tbl, tbl.slots[s].link)
                /\ tbl.slots[tbl.slots[s].link].count = -2
                /\ tbl.slots[tbl.slots[s].link].hash = s

\* the slots after key slot k on its chain
ChainTail(t, k) == ChainSlots(t, k, {}) \ {k}

\* C26: in every reachable state, following link from any key slot visits only
\* extension slots, never revisits a slot and ends at the -1 sentinel; every
\* extension slot lies on the chain of exactly one key slot, and no slot
\* belongs to the chains of two different entries.
C26_ChainsWellFormed ==
    /\ \A k \in KeySlots(tbl) :
          /\ ~_get_data(tbl, k).hang
          /\ \A i \in ChainTail(tbl, k) : tbl.slots[i].count = -2
    /\ \A e \in ExtSlots(tbl) :
          Cardinality({k \in KeySlots(tbl) : e \in ChainTail(tbl, k)}) = 1
    /\ \A k1, k2 \in KeySlots(tbl) :
          k1 # k2 => ChainSlots(tbl, k1, {}) \cap ChainSlots(tbl, k2, {}) = {}

\* the slots whose count a step changes from zero to non-zero
SlotsTaken == {i \in 0..(tbl.maxslots - 1) : tbl.slots[i].count = 0 /\ tbl'.slots[i].count # 0}

\* C27: for every value size s >= 0, a successful put of a key that was not
\* stored increases num by exactly 1 and usedslots by exactly the number of
\* slots whose count changed from zero to non-zero during the call.
C27_PutCounts ==
    [][(last'.op = "put" /\ last'.ret = "true" /\ NotStored(tbl, last'.key))
          => /\ tbl'.num = tbl.num + 1
             /\ tbl'.usedslots = tbl.usedslots + Cardinality(SlotsTaken)]_vars

\* _remove_data() and the _remove_slot() calls of its loop: TRUE when one of
\* them finds the slot it is given empty (a slot of visited was emptied by
\* this very walk)
RECURSIVE remove_data_faults(_, _, _)
remove_data_faults(t, idx, visited) ==
    IF idx \in visited \/ t.slots[idx].count = 0 THEN TRUE
    ELSE IF t.slots[idx].link = -1 THEN FALSE
    ELSE remove_data_faults(t, t.slots[idx].link, visited \cup {idx})

\* remove_(), leading slot with duplicates: the occupancy tests of
\* _remove_data, _copy_slot and _remove_slot, in the order of the calls
remove_lead_faults(t, idx, idx2) ==
    LET removed == _remove_data(t, idx).tbl
        copied == _copy_slot(removed, idx, idx2)
    IN  \/ remove_data_faults(t, idx, {})
        \/ removed.slots[idx].count # 0
        \/ removed.slots[idx2].count = 0
        \/ copied.slots[idx2].count = 0

\* remove_(): TRUE when the call meets an internal-consistency fault
remove_faults(t, key) ==
    IF key = NULL THEN FALSE
    ELSE LET hash == KeyHash(key, t.maxslots)
             idx == _get_idx(t, key, hash)
             idx2 == remove_find_dup(t, hash, idx, idx + 1)
         IN  IF idx < 0 THEN FALSE
             ELSE IF t.slots[idx].count = 1 THEN remove_data_faults(t, idx, {})
             ELSE IF t.slots[idx].count > 1
                  THEN idx2 < 0 \/ remove_lead_faults(t, idx, idx2)
             ELSE \/ t.slots[t.slots[idx].hash].count <= 1
                  \/ remove_data_faults(
                         [t EXCEPT !.slots[t.slots[idx].hash].count = @ - 1], idx, {})

\* _put_data(), "store value": the _remove_data call that takes back a value
\* for which no further slot is found
RECURSIVE put_data_loop_faults(_, _, _, _, _)
put_data_loop_faults(t, idx, newidx, savesize, value) ==
    IF ~(savesize < Len(value)) THEN FALSE
    ELSE IF savesize = 0
         THEN put_data_loop_faults(put_data_copy(t, newidx, value, savesize), idx,
                                   newidx,
                                   savesize + put_data_copysize(t, newidx, value, savesize),
                                   value)
    ELSE LET tmpidx == _find_empty(t, newidx + 1)
             ext == put_data_extend(t, newidx, tmpidx)
         IN  IF tmpidx < 0 THEN remove_data_faults(t, idx, {})
             ELSE put_data_loop_faults(put_data_copy(ext, tmpidx, value, savesize), idx,
                                       tmpidx,
                                       savesize + put_data_copysize(ext, tmpidx, value, savesize),
                                       value)

\* _put_data(): TRUE when slot idx is occupied, or the call taking the value
\* back meets a fault
put_data_faults(t, idx, hash, key, value, count) ==
    \/ t.slots[idx].count # 0
    \/ put_data_loop_faults(put_data_key(t, idx, hash, key, count), idx, idx, 0, value)

\* put(), "in case of -1 or -2, move it": the occupancy tests of _copy_slot
\* and _remove_slot
put_move_faults(t, idx, hash) ==
    \/ t.slots[idx].count # 0
    \/ t.slots[hash].count = 0
    \/ _copy_slot(t, idx, hash).slots[hash].count = 0

\* put(): TRUE when the call meets an internal-consistency fault
RECURSIVE put_faults(_, _, _)
put_faults(t, key, value) ==
    IF key = NULL \/ value = NULL THEN FALSE
    ELSE IF put_full(t) THEN FALSE
    ELSE LET hash == KeyHash(key, t.maxslots)
         IN  IF t.slots[hash].count = 0
             THEN put_data_faults(t, hash, hash, key, value, 1)
             ELSE IF t.slots[hash].count > 0
             THEN IF _get_idx(t, key, hash) >= 0
                  THEN \/ remove_faults(t, key)
                       \/ /\ remove_(t, key).ret = "true"
                          /\ put_faults(remove_(t, key).tbl, key, value)
                  ELSE LET idx == _find_empty(t, hash)
                       IN  idx >= 0 /\ put_data_faults(t, idx, hash, key, value, -1)
             ELSE LET idx == _find_empty(t, hash + 1)
                  IN  /\ idx >= 0
                      /\ \/ put_move_faults(t, idx, hash)
                         \/ put_data_faults(put_move(t, idx, hash), hash, hash, key,
                                            value, 1)

\* the calls of SpecReloc, and remove of every key that SpecReloc puts behind
\* the first one
FaultRemoves == RelocRemoves \cup {KeyL3}

\* num is capped: a put that stores again a key whose slots another key's
\* remove has taken counts that key twice, without end
NumInBounds == tbl.num <= tbl.maxslots

NextFault ==
    \/ NumInBounds /\ \E args \in RelocArgs : DoPut(args[1], args[2])
    \/ NumInBounds /\ \E key \in FaultRemoves : DoRemove(key)
    \/ NumInBounds /\ DoGetNext

SpecFault == InitReloc /\ [][NextFault]_vars

\* the calls of put explored by Spec and by SpecReloc
AllPutArgs == PutArgs \cup RelocArgs

\* C28: no call of put or remove on a table that started empty returns
\* EFAULT, and none meets an internal-consistency fault: remove of a displaced
\* entry finds its leading slot with count > 1, remove of a leading entry with
\* count > 1 finds a displaced entry of its bucket, and _put_data, _copy_slot,
\* _remove_slot and _remove_data never find the occupancy of their slot wrong.
C28_NoFault ==
    [][/\ last'.errno # "EFAULT"
       /\ last'.op = "remove" => ~remove_faults(tbl, last'.key)
       /\ \A args \in AllPutArgs :
             (last'.op = "put" /\ last'.key = args[1] /\ last'.size = SizeOf(args[2]))
                => ~put_faults(tbl, args[1], args[2])]_vars

\* the slot of key when key is stored in a leading slot, -1 otherwise
LeadingIdx(t, key) ==
    LET idx == _get_idx(t, key, KeyHash(key, t.maxslots))
    IN  IF idx >= 0 /\ t.slots[idx].count > 0 THEN idx ELSE -1

\* the slots holding the displaced entries of bucket h
Displaced(t, h) ==
    {j \in 0..(t.maxslots - 1) : t.slots[j].count = -1 /\ t.slots[j].hash = h}

\* the entry of slot j of t is, in u, the leading entry of slot h with counter
\* c: same key, same value, slot j empty, h named by its first extension
PromotedTo(t, j, u, h, c) ==
    /\ u.slots[h].count = c
    /\ u.slots[h].hash = h
    /\ PairKey(u.slots[h]) = PairKey(t.slots[j])
    /\ PairKeylen(u.slots[h]) = PairKeylen(t.slots[j])
    /\ PairKeymd5(u.slots[h]) = PairKeymd5(t.slots[j])
    /\ u.slots[j].count = 0
    /\ _get_data(u, h) = _get_data(t, j)
    /\ u.slots[h].link # -1 => u.slots[u.slots[h].link].hash = h

\* C29: a remove of the leading entry of a bucket whose count is c > 1 leaves
\* in slot h one displaced entry of the bucket, with count c - 1 and hash h,
\* its former slot empty, its value unchanged and the back pointer of its first
\* extension naming h, and the removed key is not found.
C29_Promote ==
    [][\A key \in Keys :
          (/\ last'.op = "remove" /\ last'.key = key /\ last'.ret = "true"
           /\ LeadingIdx(tbl, key) >= 0
           /\ tbl.slots[LeadingIdx(tbl, key)].count > 1)
             => /\ \E j \in Displaced(tbl, LeadingIdx(tbl, key)) :
                      PromotedTo(tbl, j, tbl', LeadingIdx(tbl, key),
                                 tbl.slots[LeadingIdx(tbl, key)].count - 1)
                /\ get(tbl', key).ret = "false"]_vars

\* the first empty slot from h on, going round; -1 when there is none
FirstEmptyFrom(t, h) ==
    LET dist(i) == (i - h + t.maxslots) % t.maxslots
        empty == {i \in 0..(t.maxslots - 1) : t.slots[i].count = 0}
    IN  IF empty = {} THEN -1
        ELSE CHOOSE i \in empty : \A j \in empty : dist(i) <= dist(j)

\* C30: a successful put of a key that is not stored, into a bucket h whose
\* slot holds a leading entry, writes the key into the first empty slot from h
\* on (going round) with count -1 and hash h, adds exactly 1 to the count of
\* slot h and changes nothing else of it, and leaves every other key slot as
\* it was.
C30_CollisionPlacement ==
    [][\A key \in Keys :
          LET h == KeyHash(key, tbl.maxslots)
              idx == FirstEmptyFrom(tbl, h)
          IN  (/\ last'.op = "put" /\ last'.key = key /\ last'.ret = "true"
               /\ NotStored(tbl, key)
               /\ tbl.slots[h].count > 0)
                 => /\ idx >= 0
                    /\ tbl'.slots[idx].count = -1
                    /\ tbl'.slots[idx].hash = h
                    /\ SameKey(tbl'.slots[idx], key)
                    /\ tbl'.slots[h] = [tbl.slots[h] EXCEPT !.count = @ + 1]
                    /\ \A i \in KeySlots(tbl) \ {h} : tbl'.slots[i] = tbl.slots[i]]_vars

\* a put has just stored its key as a displaced entry of a bucket whose
\* leading slot counts it
C30_Witness ==
    /\ last.op = "put" /\ last.ret = "true" /\ last.key \in Keys
    /\ \E i \in Displaced(tbl, KeyHash(last.key, tbl.maxslots)) :
          /\ SameKey(tbl.slots[i], last.key)
          /\ tbl.slots[i].link # -1
    /\ tbl.slots[KeyHash(last.key, tbl.maxslots)].count > 1

\* put(): the slot in which a put of a key that is not stored writes the key;
\* -1 when the table is full or no slot is found for it
PutKeySlot(t, key) ==
    LET hash == KeyHash(key, t.maxslots)
    IN  IF put_full(t) THEN -1
        ELSE IF t.slots[hash].count = 0 THEN hash
        ELSE IF t.slots[hash].count > 0 THEN _find_empty(t, hash)
        ELSE IF _find_empty(t, hash + 1) >= 0 THEN hash ELSE -1

\* C31: when a put of a key that was not stored has written the key slot and
\* then fails for want of an empty slot for an extension, usedslots and num
\* are what they were before the call, as many slots are occupied as before,
\* the key is not found, and the count of a leading entry in the key's bucket
\* slot is unchanged.
C31_FailedPutReleases ==
    [][\A key \in Keys :
          LET h == KeyHash(key, tbl.maxslots)
          IN  (/\ last'.op = "put" /\ last'.key = key
               /\ last'.ret = "false" /\ last'.errno = "ENOBUFS"
               /\ NotStored(tbl, key)
               /\ PutKeySlot(tbl, key) >= 0)
                 => /\ tbl'.usedslots = tbl.usedslots
                    /\ tbl'.num = tbl.num
                    /\ Cardinality(UsedSlots(tbl')) = Cardinality(UsedSlots(tbl))
                    /\ NotStored(tbl', key)
                    /\ get(tbl', key).ret = "false"
                    /\ tbl.slots[h].count > 0
                          => tbl'.slots[h].count = tbl.slots[h].count]_vars

\* a put of a key that was not stored has just failed after its key slot was
\* written and taken back: the slot still holds the key's bytes
C31_Witness ==
    /\ last.op = "put" /\ last.ret = "false" /\ last.errno = "ENOBUFS"
    /\ last.key \in Keys
    /\ NotStored(tbl, last.key)
    /\ \E i \in 0..(tbl.maxslots - 1) :
          tbl.slots[i].count = 0 /\ SameKey(tbl.slots[i], last.key)

\* a size() that empties the table it is asked about
size_clearing(t) ==
    [ret |-> t.num, maxslots |-> t.maxslots, usedslots |-> t.usedslots, tbl |-> clear(t)]

\* size(): the number of keys, *maxslots and *usedslots, and the table as the
\* call leaves it
size(t) ==
    [ret |-> t.num, maxslots |-> t.maxslots, usedslots |-> t.usedslots, tbl |-> t]

\* the output streams given to debug(): an open one, and the null pointer
Streams == {<<1>>, NULL}

\* debug(), the getnext loop from cursor idx on: it ends at the first getnext
\* that does not return true, and never when getnext does not return
RECURSIVE debug_loop(_, _)
debug_loop(t, idx) ==
    LET r == getnext(t, idx)
    IN  IF r.ret = "hang" THEN Result("hang", "none", t)
        ELSE IF r.ret = "true" THEN debug_loop(t, r.idx)
        ELSE Result("true", "none", t)

\* debug(): [ret, errno, tbl]
debug(t, out) ==
    IF out = NULL THEN Result("false", "EIO", t) ELSE debug_loop(t, 0)

DoSize ==
    /\ Running
    /\ tbl' = size(tbl).tbl
    /\ last' = Call("size", NULL, size(tbl).ret, "true", "none")
    /\ UNCHANGED <<amap, twin, list, pushed>>

DoDebug(out) ==
    /\ Running
    /\ tbl' = debug(tbl, out).tbl
    /\ last' = Call("debug", NULL, -1, debug(tbl, out).ret, debug(tbl, out).errno)
    /\ UNCHANGED <<amap, twin, list, pushed>>

\* the calls of SpecReloc and the four reading calls
NextRead ==
    \/ \E args \in RelocArgs : DoPut(args[1], args[2])
    \/ \E key \in RelocRemoves : DoRemove(key)
    \/ \E key \in {KeyL2, KeyL3, NULL} : DoGet(key)
    \/ DoGetNext
    \/ DoSize
    \/ \E out \in Streams : DoDebug(out)

SpecRead == InitReloc /\ [][NextRead]_vars

ReadOps == {"get", "getnext", "size", "debug"}

KeySlotsFrom(t, idx) ==
    {i \in 0..(t.maxslots - 1) : i >= idx /\ t.slots[i].count # 0 /\ t.slots[i].count # -2}

\* the first bytes of key that a key slot keeps
StoredName(key) == SubSeq(key, 1, Min(Len(key), Q_HASHARR_KEYSIZE))

\* C33: getnext called with a cursor returns, when a key slot lies at or after
\* the cursor, the entry of the first such slot: the first min(keylen, KEYSIZE)
\* bytes of the key that was put, the value that was put for it, and the cursor
\* set to that slot's index + 1; when no key slot is left it returns false
\* with ENOENT.
C33_GetNext ==
    [][last'.op = "getnext"
          => LET r == getnext(tbl, Cursor)
                 slots == KeySlotsFrom(tbl, Cursor)
                 at == CHOOSE i \in slots : \A j \in slots : i <= j
             IN  IF slots = {}
                 THEN r.ret = "false" /\ r.errno = "ENOENT"
                 ELSE /\ r.ret = "true"
                      /\ r.idx = at + 1
                      /\ \E k \in Keys :
                            /\ amap[k] # NoValue
                            /\ SameKey(tbl.slots[at], k)
                            /\ r.name = StoredName(k)
                            /\ r.data = amap[k]]_vars

\* the number of value bytes a slot can hold: value[] of the pair for a key
\* slot, value[] of the extension for an extension slot
SlotCapacity(slot) == IF slot.count = -2 THEN SLOT_EXT_SIZE ELSE Q_HASHARR_VALUESIZE

\* 1 + ceil(max(0, s - V) / E)
SlotsNeeded(s) ==
    1 + (IF s > Q_HASHARR_VALUESIZE
         THEN (s - Q_HASHARR_VALUESIZE + SLOT_EXT_SIZE - 1) \div SLOT_EXT_SIZE
         ELSE 0)

\* C34: after a successful put of a value of s > 0 bytes, a key slot holds the
\* key and its entry occupies exactly 1 + ceil(max(0, s - V) / E) slots, the
\* key slot followed by extension slots, that hold s bytes together; every
\* slot of the chain but the last holds as many bytes as it can, and no slot's
\* size is greater than what the slot can hold.
C34_SlotConsumption ==
    [][\A key \in Keys :
          (last'.op = "put" /\ last'.key = key /\ last'.ret = "true" /\ last'.size > 0)
             => \E idx \in KeySlots(tbl') :
                   LET chain == ChainSlots(tbl', idx, {})
                   IN  /\ SameKey(tbl'.slots[idx], key)
                       /\ Cardinality(chain) = SlotsNeeded(last'.size)
                       /\ Len(_get_data(tbl', idx).data) = last'.size
                       /\ \A i \in chain :
                             /\ tbl'.slots[i].size <= SlotCapacity(tbl'.slots[i])
                             /\ tbl'.slots[i].link # -1
                                   => tbl'.slots[i].size = SlotCapacity(tbl'.slots[i])
                             /\ i # idx => tbl'.slots[i].count = -2]_vars

\* a put has just stored a value that fills its key slot and one extension
\* slot and ends in a second extension slot
C34_Witness ==
    /\ last.op = "put" /\ last.ret = "true" /\ last.key \in Keys
    /\ last.size > Q_HASHARR_VALUESIZE + SLOT_EXT_SIZE
    /\ Cardinality(KeyChain(tbl, last.key)) = 3

\* the list calls that change the links, with data that add_at takes
StructData == {<<1>>, <<3, 3>>}
StructIndexes == (-(MaxObjs + 1))..MaxObjs

StructAddAt(index, data) ==
    LET r == add_at(list, index, data)
    IN  /\ list' = r.list
        /\ last' = CallList("add_at", index, data, r)
        /\ UNCHANGED <<tbl, amap, twin, pushed>>

StructPopAt(index) ==
    LET r == pop_at(list, index)
    IN  /\ list' = r.list
        /\ last' = CallList("pop_at", index, NULL, r)
        /\ UNCHANGED <<tbl, amap, twin, pushed>>

StructRemoveAt(index) ==
    LET r == remove_at(list, index)
    IN  /\ list' = r.list
        /\ last' = CallList("remove_at", index, NULL, r)
        /\ UNCHANGED <<tbl, amap, twin, pushed>>

StructReverse ==
    /\ list' = reverse(list)
    /\ last' = CallList("reverse", NoIndex, NULL, ListResult("true", "none", list, <<>>))
    /\ UNCHANGED <<tbl, amap, twin, pushed>>

StructClear ==
    /\ list' = qlist_clear(list)
    /\ last' = CallList("clear", NoIndex, NULL, ListResult("true", "none", list, <<>>))
    /\ UNCHANGED <<tbl, amap, twin, pushed>>

NextStruct ==
    \/ \E index \in StructIndexes, data \in StructData : StructAddAt(index, data)
    \/ \E index \in StructIndexes : StructPopAt(index)
    \/ \E index \in StructIndexes : StructRemoveAt(index)
    \/ StructReverse
    \/ StructClear

SpecStruct == Init /\ [][NextStruct]_vars

\* the objects reached from obj by next links, at most n of them
RECURSIVE nodes_from(_, _, _)
nodes_from(l, obj, n) ==
    IF obj = NIL \/ n = 0 THEN <<>>
    ELSE <<obj>> \o nodes_from(l, l.objs[obj].next, n - 1)

\* the objects of a list from first on (MaxObjs + 1 of them when the links go
\* round)
Nodes(l) == nodes_from(l, l.first, MaxObjs + 1)

RECURSIVE SizeSum(_, _)
SizeSum(l, nodes) ==
    IF nodes = <<>> THEN 0 ELSE l.objs[Head(nodes)].size + SizeSum(l, Tail(nodes))

\* C35: in every state reached by add, pop, remove, reverse and clear, num is
\* the number of objects reached from first by next links, datasum is the sum
\* of their sizes, first has no prev and last has no next, next and prev are
\* inverse to each other, and first and last are both null exactly when num
\* is 0.
C35_ListStructure ==
    LET nodes == Nodes(list)
    IN  /\ list.num = Len(nodes)
        /\ list.datasum = SizeSum(list, nodes)
        /\ list.first # NIL => list.objs[list.first].prev = NIL
        /\ list.last # NIL => list.objs[list.last].next = NIL
        /\ \A i \in 1..Len(nodes) :
              LET o == list.objs[nodes[i]]
              IN  /\ o.used
                  /\ o.size = Len(o.data)
                  /\ o.next # NIL => list.objs[o.next].prev = nodes[i]
                  /\ o.prev # NIL => list.objs[o.prev].next = nodes[i]
                  /\ o.next = NIL => list.last = nodes[i]
        /\ (list.first = NIL /\ list.last = NIL) <=> list.num = 0
        /\ list.first = NIL <=> list.last = NIL

\* a full list whose first and last elements differ in size has just been
\* reversed
C35_Witness ==
    /\ last.op = "reverse"
    /\ list.num = MaxObjs
    /\ list.objs[list.first].size # list.objs[list.last].size

====
